---- MODULE Spec2Model ----
(***************************************************************************)
(* HR mock-interview application: the REST handlers over the relational    *)
(* store (interviews, main questions, follow-up questions, answers) and    *)
(* the generative-model calls they make.  Every handler runs to            *)
(* completion as one step; its inputs (the authenticated user, the request *)
(* body, what the generative model returns) are drawn from small sets.     *)
(***************************************************************************)
EXTENDS Integers, Sequences, FiniteSets, TLC

(* ----------------------------- bounds ---------------------------------- *)
\* rows the store may hold (ids are never reused)
MaxInterviews == 2
MaxQuestions == 2
MaxFollowUps == 3
MaxAnswers == 2
\* requests served in one behaviour
MaxRequests == 3

(* --------------------------- program constants ------------------------- *)
MAX_FOLLOWUP_QUESTIONS == 2
DEFAULT_MAX_SCORE == 10

(* ------------------------------ values --------------------------------- *)
\* "none": the request carries no authenticated user id (auth() gives null)
NoUser == "none"
Users == {"u1", "u2"}
Callers == Users \cup {NoUser}
\* 0: no id (undefined / null reference)
NoId == 0

\* a value of a JSON body field: absent (undefined), falsy (0 or ""), or a
\* truthy value
Absent == "absent"
Falsy == "falsy"
Present == "present"

requiredFields == <<"jobPosition", "jobDescription", "jobExperience", "difficultyLevel", "totalQuestions">>

AllPresent == [f \in {requiredFields[i] : i \in 1..Len(requiredFields)} |-> Present]

\* request bodies of interview creation: complete, one field absent, one of
\* the numeric fields 0, everything absent
CreateBodies ==
  {AllPresent}
    \cup {[AllPresent EXCEPT ![requiredFields[i]] = Absent] : i \in 1..Len(requiredFields)}
    \cup {[AllPresent EXCEPT !["jobExperience"] = Falsy]}
    \cup {[AllPresent EXCEPT !["jobPosition"] = Absent, !["totalQuestions"] = Absent]}

\* candidate answers typed by the user ("" is the empty answer)
AnswerTexts == {"", "a1", "a2"}

(* ------------------- the model's scoring text -------------------------- *)
\* The text returned by the generative model is a sequence of lines; a line
\* either carries one of the labels the extractors look for, followed by
\* what the extractor's group captures, or is other prose.
\*   Score: <digits>         val = the number the digits denote
\*   Feedback: <text>        val = the captured text (" " is blank text)
\*   Key Points: <a, b, ..>  val = the pieces between commas, untrimmed
\*   Voice Tone: / Confidence: <text>
Line(kind, val) == [kind |-> kind, val |-> val]

\* null: analyzeAnswer caught a failure of the generative model
NullText == <<Line("null", "null")>>

AnalysisTexts ==
  { <<>>,
    <<Line("Other", "prose")>>,
    <<Line("Score", 12)>>,
    <<Line("Key Points", <<"k1", " ", "k2">>)>>,
    <<Line("Feedback", " "), Line("Voice Tone", "calm")>>,
    <<Line("Other", "prose"), Line("Score", 7), Line("Feedback", "good"),
      Line("Key Points", <<"k1", " ", "k2">>), Line("Score", 12)>> }

\* String.prototype.trim on the strings of the model
trim(s) == IF s = " " THEN "" ELSE s

\* text.match(regex): the first line with the extractor's label, or 0
RECURSIVE match(_, _)
match(text, label) ==
  IF text = <<>> THEN 0
  ELSE IF Head(text).kind = label THEN 1
  ELSE LET r == match(Tail(text), label) IN IF r = 0 THEN 0 ELSE r + 1

Min(a, b) == IF a < b THEN a ELSE b

\* .map(point => point.trim()).filter(Boolean)
RECURSIVE trimFilter(_)
trimFilter(pieces) ==
  IF pieces = <<>> THEN <<>>
  ELSE IF trim(Head(pieces)) = "" THEN trimFilter(Tail(pieces))
  ELSE <<trim(Head(pieces))>> \o trimFilter(Tail(pieces))

\* the value one extractor writes over its default
extract(text, key, label, default, maxScore) ==
  LET i == match(text, label) IN
  IF i = 0 THEN default
  ELSE IF key = "matchedKeyPoints" THEN trimFilter(text[i].val)
  ELSE IF key = "score" THEN Min(text[i].val, maxScore)
  ELSE trim(text[i].val)

\* a parser whose score falls back to the maximum instead of half of it
parseFullScore(analysisText, maxScore) ==
  [ score |-> extract(analysisText, "score", "Score", maxScore, maxScore),
    evaluationFeedback |-> extract(analysisText, "evaluationFeedback", "Feedback", "No specific feedback provided.", maxScore),
    matchedKeyPoints |-> extract(analysisText, "matchedKeyPoints", "Key Points", <<>>, maxScore),
    voiceTone |-> extract(analysisText, "voiceTone", "Voice Tone", "null", maxScore),
    confidence |-> extract(analysisText, "confidence", "Confidence", "null", maxScore) ]

parseAnalysisResponse(analysisText, maxScore) ==
  IF analysisText = NullText \/ analysisText = <<>>
  THEN [ score |-> maxScore \div 2,
         evaluationFeedback |-> "Unable to generate detailed analysis.",
         matchedKeyPoints |-> <<>>,
         voiceTone |-> "null",
         confidence |-> "null" ]
  ELSE [ score |-> extract(analysisText, "score", "Score", maxScore \div 2, maxScore),
         evaluationFeedback |-> extract(analysisText, "evaluationFeedback", "Feedback", "No specific feedback provided.", maxScore),
         matchedKeyPoints |-> extract(analysisText, "matchedKeyPoints", "Key Points", <<>>, maxScore),
         voiceTone |-> extract(analysisText, "voiceTone", "Voice Tone", "null", maxScore),
         confidence |-> extract(analysisText, "confidence", "Confidence", "null", maxScore) ]


\* a response body that carries no row
NoBody == [none |-> TRUE]

(* ------------------------------ the store ------------------------------ *)
VARIABLES
  user,                \* db.user: ids of the users that have a row
  hRInterview,         \* db.hRInterview rows
  hRQuestion,          \* db.hRQuestion rows (main questions)
  hRFollowUpQuestion,  \* db.hRFollowUpQuestion rows
  hRUserAnswer,        \* db.hRUserAnswer rows
  nextId,              \* next id of each table (ids grow, never reused)
  req,                 \* the request the last handler served
  resp,                \* its response
  aiCalls,             \* generateContent calls it made
  dbTouched,           \* tables it read or wrote
  before,              \* the tables as they were when it started
  served,              \* requests served so far
  results,             \* results page: the interview it fetched
  rendered,            \* results page: what it displays
  page,                \* interview page: its state and its submissions in flight
  calls                \* handler calls that overlap: what each has read, and how it ended

store == <<user, hRInterview, hRQuestion, hRFollowUpQuestion, hRUserAnswer, nextId>>
vars == <<user, hRInterview, hRQuestion, hRFollowUpQuestion, hRUserAnswer, nextId, req, resp, aiCalls, dbTouched, before, served,
          results, rendered, page, calls>>

\* the interview page before it is opened: the useState defaults, nothing in
\* local storage, no request under way
closedPage ==
  [ mounted |-> FALSE, opened |-> FALSE, interviewQuestions |-> <<>>,
    loading |-> TRUE, questions |-> <<>>,
    currentQuestionIndex |-> 0, currentQuestion |-> 0, isFollowUp |-> FALSE, followUpQuestion |-> 0,
    interviewComplete |-> FALSE, userAnswer |-> "", submitting |-> FALSE,
    storage |-> [none |-> TRUE], fetches |-> <<>>, inFlight |-> <<>>,
    event |-> "none", clickedWith |-> "", inFlightBefore |-> 0, messagesAdded |-> 0,
    left |-> [none |-> TRUE], restoring |-> FALSE, answered |-> [none |-> TRUE] ]

Init ==
  /\ user = {"u1"}
  /\ hRInterview = {}
  /\ hRQuestion = {}
  /\ hRFollowUpQuestion = {}
  /\ hRUserAnswer = {}
  /\ nextId = [interview |-> 1, question |-> 1, followUp |-> 1, answer |-> 1]
  /\ req = [handler |-> "none", userId |-> NoUser]
  /\ resp = [status |-> 0, error |-> "", body |-> NoBody]
  /\ aiCalls = 0
  /\ dbTouched = {}
  /\ before = [hRInterview |-> {}, hRQuestion |-> {}, hRFollowUpQuestion |-> {}, hRUserAnswer |-> {}]
  /\ served = 0
  /\ results = NoBody
  /\ rendered = NoBody
  /\ page = closedPage
  /\ calls = <<>>

(* ------------------------- store queries ------------------------------- *)
\* findUnique / findFirst: the matching row, as a set of at most one row
interviewById(id) == {i \in hRInterview : i.id = id}
questionById(id) == {q \in hRQuestion : q.id = id}
followUpById(id) == {f \in hRFollowUpQuestion : f.id = id}
answerById(id) == {a \in hRUserAnswer : a.id = id}
\* a lookup that finds no follow-up question
noFollowUpQuestions(qid) == {}
\* include: { followUpQuestions: true }
followUpQuestions(qid) == {f \in hRFollowUpQuestion : f.mainQuestionId = qid}
\* include: { questions: ... }
questions(iid) == {q \in hRQuestion : q.hrInterviewId = iid}
\* a lookup that takes the answer row of any question for the question's
answerOfAnyQuestion(qid) == hRUserAnswer
\* the answer row of a main question (hrQuestionId is a unique key)
userAnswer(qid) == {a \in hRUserAnswer : a.hrQuestionId = qid}
\* HRUserAnswer of a follow-up question
followUpAnswers(fid) == {a \in hRUserAnswer : a.hrFollowUpQuestionId = fid}
\* question.hrInterview.userId
ownerOfQuestion(q) == (CHOOSE i \in hRInterview : i.id = q.hrInterviewId).userId
ownerOfFollowUp(f) == ownerOfQuestion(CHOOSE q \in hRQuestion : q.id = f.mainQuestionId)

The(S) == CHOOSE x \in S : TRUE

\* a || b on numbers: 0 (and an absent number) is falsy
Or(a, b) == IF a = 0 THEN b ELSE a

(* ------------------------- responses ----------------------------------- *)
tables ==
  [ hRInterview |-> hRInterview, hRQuestion |-> hRQuestion,
    hRFollowUpQuestion |-> hRFollowUpQuestion, hRUserAnswer |-> hRUserAnswer ]

Reply(rq, status, error, body, ai, db) ==
  /\ served' = served + 1
  /\ before' = tables
  /\ UNCHANGED <<results, rendered, page, calls>>
  /\ req' = rq
  /\ resp' = [status |-> status, error |-> error, body |-> body]
  /\ aiCalls' = ai
  /\ dbTouched' = db

\* a reply that leaves every table as it was
Answer(rq, status, error, body, ai, db) ==
  Reply(rq, status, error, body, ai, db) /\ UNCHANGED store

Unauthorized(rq) == Answer(rq, 401, "Unauthorized", NoBody, 0, {})


(* ------------------- interview creation: POST /hrRound ------------------ *)
\* what the model put in a generated question: 0 stands for a missing
\* number (and for 0: both are falsy)
QuestionShapes == {[maxScore |-> 0, timeLimit |-> 0], [maxScore |-> 1, timeLimit |-> 60]}
FollowUpShape == [maxScore |-> 0, timeLimit |-> 0]

\* a generated question with n follow-up questions
GeneratedQuestion(s, n) ==
  [maxScore |-> s.maxScore, timeLimit |-> s.timeLimit, followUpQuestions |-> [i \in 1..n |-> FollowUpShape]]

\* the question lists the model returns: one question with no, one or many
\* follow-up questions, or a full list of questions without follow-ups
QuestionLists ==
  { <<GeneratedQuestion(s, n)>> : s \in QuestionShapes, n \in {0, 1, MaxFollowUps} }
    \cup { [k \in 1..MaxQuestions |-> GeneratedQuestion(s, 0)] : s \in QuestionShapes }

\* result.response.text() of the question prompt, or "fail" when
\* generateContent throws
QuestionResponses ==
  { [kind |-> k, questions |-> <<>>] : k \in {"fail", "nojson", "badjson", "noquestions", "json"} }
    \cup { [kind |-> "json", questions |-> l] : l \in QuestionLists }

\* a parse that makes up a question when it finds none in the response
inventJSON(response) ==
  [ ok |-> TRUE, error |-> "", hasQuestions |-> TRUE,
    questions |-> IF response.questions = <<>> THEN <<GeneratedQuestion(FollowUpShape, 0)>> ELSE response.questions ]

extractJSON(response) ==
  IF response.kind = "nojson" THEN [ok |-> FALSE, error |-> "No valid JSON found in response"]
  ELSE IF response.kind = "badjson" THEN [ok |-> FALSE, error |-> "Failed to parse JSON response"]
  ELSE [ok |-> TRUE, error |-> "", hasQuestions |-> response.kind = "json", questions |-> response.questions]

\* a validation that looks at the first required field only
missingFirstField(requestBody) ==
  SelectSeq(<<requiredFields[1]>>, LAMBDA field : requestBody[field] \in {Absent, Falsy})

\* requiredFields.filter(field => !requestBody[field])
missingFields(requestBody) ==
  SelectSeq(requiredFields, LAMBDA field : requestBody[field] \in {Absent, Falsy})

RECURSIVE followUpsBefore(_, _)
followUpsBefore(list, k) ==
  IF k <= 1 THEN 0 ELSE Len(list[k - 1].followUpQuestions) + followUpsBefore(list, k - 1)

\* the rows the two loops of the creation handler create
newQuestions(list, iid) ==
  { [ id |-> nextId.question + k - 1,
      hrInterviewId |-> iid,
      maxScore |-> Or(list[k].maxScore, 10),
      timeLimit |-> Or(list[k].timeLimit, 120) ] : k \in 1..Len(list) }

newFollowUps(list) ==
  UNION { { [ id |-> nextId.followUp + followUpsBefore(list, k) + j - 1,
              mainQuestionId |-> nextId.question + k - 1,
              maxScore |-> Or(list[k].followUpQuestions[j].maxScore, 5),
              timeLimit |-> Or(list[k].followUpQuestions[j].timeLimit, 90) ]
            : j \in 1..Len(list[k].followUpQuestions) } : k \in 1..Len(list) }

CreateInterviewPOST(userId, requestBody, response) ==
  LET rq == [ handler |-> "CreateInterviewPOST", userId |-> userId, body |-> requestBody,
              response |-> response.kind, generated |-> Len(response.questions) ]
      parsed == extractJSON(response)
      list == parsed.questions
      iid == nextId.interview
      nf == followUpsBefore(list, Len(list) + 1)
  IN
  IF userId = NoUser THEN Unauthorized(rq)
  ELSE IF userId \notin user
    THEN Answer(rq, 400, "No resume found", NoBody, 0, {"user"})
  ELSE IF missingFields(requestBody) /= <<>>
    THEN Answer(rq, 400, "Missing required fields", [missingFields |-> missingFields(requestBody)], 0, {"user"})
  ELSE IF response.kind = "fail"
    THEN Answer(rq, 500, "Internal Server Error", NoBody, 1, {"user"})
  ELSE IF ~parsed.ok
    THEN Answer(rq, 400, "Failed to parse AI response", NoBody, 1, {"user"})
  ELSE IF ~parsed.hasQuestions \/ Len(list) = 0
    THEN Answer(rq, 400, "No valid questions could be parsed from the AI response", NoBody, 1, {"user"})
  ELSE
    /\ iid <= MaxInterviews
    /\ nextId.question + Len(list) - 1 <= MaxQuestions
    /\ nextId.followUp + nf - 1 <= MaxFollowUps
    /\ hRInterview' = hRInterview \cup {[id |-> iid, userId |-> userId, jobPosition |-> "posted"]}
    /\ hRQuestion' = hRQuestion \cup newQuestions(list, iid)
    /\ hRFollowUpQuestion' = hRFollowUpQuestion \cup newFollowUps(list)
    /\ nextId' = [nextId EXCEPT !.interview = iid + 1, !.question = @ + Len(list), !.followUp = @ + nf]
    /\ UNCHANGED <<user, hRUserAnswer>>
    /\ Reply(rq, 201, "", [hrInterview |-> iid], 1, {"user", "hRInterview", "hRQuestion", "hRFollowUpQuestion"})


(* --------------- answer handler: POST / PUT /hrRound/answer ------------- *)
\* analyzeAnswer: the model's text, or null when generateContent throws
ModelFails == <<Line("fail", "fail")>>
analyzeAnswer(outcome) == IF outcome = ModelFails THEN NullText ELSE outcome

\* a follow-up generation whose failure goes unnoticed
generateAnyway(outcome) == TRUE

\* generateFollowUpQuestion: the model's text, or null when it throws;
\* the result is used only through its truthiness
generateFollowUpQuestion(outcome) == outcome /= "fail"

\* the columns of an answer row that no handler argument sets
answerDefaults ==
  [ score |-> 0, evaluationFeedback |-> "null", matchedKeyPoints |-> <<>>,
    voiceTone |-> "null", confidence |-> "null" ]

\* Math.floor(maxScore * 0.5) and Math.floor(timeLimit * 0.75)
halfScore(maxScore) == maxScore \div 2
threeQuarters(timeLimit) == (timeLimit * 3) \div 4

\* the follow-up row the answer handler creates (no timeLimit is passed:
\* 0 stands for the column's own default)
answerFollowUp(q) ==
  [ id |-> nextId.followUp, mainQuestionId |-> q.id,
    maxScore |-> halfScore(Or(q.maxScore, DEFAULT_MAX_SCORE)), timeLimit |-> 0 ]

\* an update that leaves the stored answer text as it was
updateScoreOnly(row, text, analysis) == analysis @@ row

\* hRUserAnswer.update: the submitted text and its analysis overwrite the
\* row's columns, the other columns stay
update(row, text, analysis) == analysis @@ [userAnswer |-> text] @@ row

processMainQuestion(userId, hrQuestionId, text, analysisOutcome, followUpOutcome, saveOk) ==
  LET rq == [ handler |-> "processMainQuestion", userId |-> userId, hrQuestionId |-> hrQuestionId,
              userAnswer |-> text, analysisOutcome |-> analysisOutcome, followUpOutcome |-> followUpOutcome,
              saveOk |-> saveOk ]
      found == questionById(hrQuestionId)
      hrQuestion == The(found)
      analysis == parseAnalysisResponse(analyzeAnswer(analysisOutcome), Or(hrQuestion.maxScore, DEFAULT_MAX_SCORE))
      existing == {a \in hRUserAnswer : a.hrQuestionId = hrQuestionId /\ a.userId = userId}
      updated == update(The(existing), text, analysis)
      created == analysis @@ [ id |-> nextId.answer, hrQuestionId |-> hrQuestionId, hrFollowUpQuestionId |-> NoId,
                               userId |-> userId, userAnswer |-> text ]
      hrUserAnswer == IF existing /= {} THEN updated ELSE created
      \* the create is rejected when another row already holds the unique hrQuestionId
      saved == saveOk /\ (existing /= {} \/ userAnswer(hrQuestionId) = {})
      answers == IF existing /= {} THEN (hRUserAnswer \ existing) \cup {updated} ELSE hRUserAnswer \cup {created}
      fups == followUpQuestions(hrQuestionId)
      generate == fups = {} /\ generateFollowUpQuestion(followUpOutcome)
      \* hrQuestion.followUpQuestions[0]: the include has no orderBy, any of the
      \* rows may come first
      nextQuestions == IF fups /= {} THEN {f.id : f \in fups}
                       ELSE IF generate THEN {nextId.followUp} ELSE {NoId}
      ai == IF fups = {} THEN 2 ELSE 1
      db == {"hRQuestion", "hRInterview", "hRFollowUpQuestion", "hRUserAnswer"}
  IN
  IF userId = NoUser THEN Unauthorized(rq)
  ELSE IF hrQuestionId = NoId \/ text = ""
    THEN Answer(rq, 400, "Missing required fields", NoBody, 0, {})
  ELSE IF found = {}
    THEN Answer(rq, 404, "Question not found", NoBody, 0, {"hRQuestion"})
  ELSE IF ~saved
    THEN Answer(rq, 500, "Failed to save answer", NoBody, 1, db)
  ELSE
    /\ existing = {} => nextId.answer <= MaxAnswers
    /\ generate => nextId.followUp <= MaxFollowUps
    /\ hRUserAnswer' = answers
    /\ hRFollowUpQuestion' = IF generate THEN hRFollowUpQuestion \cup {answerFollowUp(hrQuestion)} ELSE hRFollowUpQuestion
    /\ nextId' = [nextId EXCEPT !.answer = IF existing = {} THEN @ + 1 ELSE @,
                                !.followUp = IF generate THEN @ + 1 ELSE @]
    /\ UNCHANGED <<user, hRInterview, hRQuestion>>
    /\ \E nextQuestion \in nextQuestions :
         Reply(rq, 200, "",
               [hrUserAnswer |-> hrUserAnswer, analysis |-> analysis, nextQuestion |-> nextQuestion],
               ai, db)

processFollowUpQuestion(userId, hrQuestionId, followUpQuestionId, text, followUpOutcome, analysisOutcome, saveOk) ==
  LET rq == [ handler |-> "processFollowUpQuestion", userId |-> userId, hrQuestionId |-> hrQuestionId,
              followUpQuestionId |-> followUpQuestionId, userAnswer |-> text,
              analysisOutcome |-> analysisOutcome, followUpOutcome |-> followUpOutcome,
              saveOk |-> saveOk ]
      byId == followUpQuestionId /= NoId
      mainFound == questionById(hrQuestionId)
      generated == answerFollowUp(The(mainFound))
      followUpFound == IF byId THEN followUpById(followUpQuestionId) ELSE {generated}
      followUpQuestion == The(followUpFound)
      mainId == followUpQuestion.mainQuestionId
      analysis == parseAnalysisResponse(analyzeAnswer(analysisOutcome), Or(followUpQuestion.maxScore, DEFAULT_MAX_SCORE))
      \* upsert({ where: { hrQuestionId: followUpQuestion.mainQuestion.id }, ... })
      existing == userAnswer(mainId)
      updated == update(The(existing), text, analysis)
      created == analysis @@ [ id |-> nextId.answer, hrQuestionId |-> mainId, hrFollowUpQuestionId |-> followUpQuestion.id,
                               userId |-> userId, userAnswer |-> text ]
      hrUserAnswer == IF existing /= {} THEN updated ELSE created
      answers == IF existing /= {} THEN (hRUserAnswer \ existing) \cup {updated} ELSE hRUserAnswer \cup {created}
      fupTable == IF byId THEN hRFollowUpQuestion ELSE hRFollowUpQuestion \cup {generated}
      fupNext == IF byId THEN nextId.followUp ELSE nextId.followUp + 1
      ai == IF byId THEN 1 ELSE 2
      db == {"hRQuestion", "hRInterview", "hRFollowUpQuestion", "hRUserAnswer"}
  IN
  IF userId = NoUser THEN Unauthorized(rq)
  ELSE IF (followUpQuestionId = NoId /\ hrQuestionId = NoId) \/ text = ""
    THEN Answer(rq, 400, "Missing required fields", NoBody, 0, {})
  ELSE IF ~byId /\ mainFound = {}
    THEN Answer(rq, 404, "Main question not found", NoBody, 0, {"hRQuestion"})
  ELSE IF ~byId /\ ~generateFollowUpQuestion(followUpOutcome)
    THEN Answer(rq, 500, "Failed to generate follow-up question", NoBody, 1, {"hRQuestion", "hRInterview"})
  ELSE IF followUpFound = {}
    THEN Answer(rq, 404, "Follow-up question not found or could not be created", NoBody, 0, {"hRFollowUpQuestion"})
  ELSE
    /\ ~byId => nextId.followUp <= MaxFollowUps
    /\ (saveOk /\ existing = {}) => nextId.answer <= MaxAnswers
    /\ hRFollowUpQuestion' = fupTable
    /\ hRUserAnswer' = IF saveOk THEN answers ELSE hRUserAnswer
    /\ nextId' = [nextId EXCEPT !.followUp = fupNext,
                                !.answer = IF saveOk /\ existing = {} THEN @ + 1 ELSE @]
    /\ UNCHANGED <<user, hRInterview, hRQuestion>>
    /\ IF saveOk
       THEN Reply(rq, 200, "",
                  [hrUserAnswer |-> hrUserAnswer, analysis |-> analysis, followUpQuestion |-> followUpQuestion.id],
                  ai, db)
       ELSE Reply(rq, 500, "Failed to save follow-up answer", NoBody, ai, db)

(* -------- follow-up questions: GET / POST hr-followup-questions --------- *)
\* Some handlers destructure auth() without awaiting it; they are modelled
\* for the builds in which auth() returns the session synchronously, as the
\* handlers awaiting it behave.
FollowUpGET(userId, followupId, mainQuestionId) ==
  LET rq == [handler |-> "FollowUpGET", userId |-> userId, followupId |-> followupId, mainQuestionId |-> mainQuestionId]
      followUp == followUpById(followupId)
      mainQuestion == questionById(mainQuestionId)
  IN
  IF userId = NoUser THEN Unauthorized(rq)
  ELSE IF followupId /= NoId THEN
    IF followUp = {}
      THEN Answer(rq, 404, "Follow-up question not found", NoBody, 0, {"hRFollowUpQuestion"})
    ELSE IF ownerOfFollowUp(The(followUp)) /= userId
      THEN Answer(rq, 401, "Unauthorized", NoBody, 0, {"hRFollowUpQuestion", "hRQuestion", "hRInterview", "hRUserAnswer"})
    ELSE Answer(rq, 200, "", [followUps |-> followUp, answers |-> followUpAnswers(followupId)], 0,
                {"hRFollowUpQuestion", "hRQuestion", "hRInterview", "hRUserAnswer"})
  ELSE IF mainQuestionId = NoId
    THEN Answer(rq, 400, "Main question ID is required", NoBody, 0, {})
  ELSE IF mainQuestion = {}
    THEN Answer(rq, 404, "Main question not found", NoBody, 0, {"hRQuestion"})
  ELSE IF ownerOfQuestion(The(mainQuestion)) /= userId
    THEN Answer(rq, 401, "Unauthorized", NoBody, 0, {"hRQuestion", "hRInterview"})
  ELSE Answer(rq, 200, "",
              [ followUps |-> followUpQuestions(mainQuestionId),
                answers |-> UNION {followUpAnswers(f.id) : f \in followUpQuestions(mainQuestionId)} ], 0,
              {"hRQuestion", "hRInterview", "hRFollowUpQuestion", "hRUserAnswer"})

\* the follow-up a client may post: the body's maxScore and timeLimit are stored as sent
PostedFollowUps == {[maxScore |-> 5, timeLimit |-> 90]}

FollowUpPOST(userId, mainQuestionId, posted) ==
  LET rq == [handler |-> "FollowUpPOST", userId |-> userId, mainQuestionId |-> mainQuestionId]
      mainQuestion == questionById(mainQuestionId)
      newFollowUp == [ id |-> nextId.followUp, mainQuestionId |-> mainQuestionId,
                       maxScore |-> posted.maxScore, timeLimit |-> posted.timeLimit ]
  IN
  IF userId = NoUser THEN Unauthorized(rq)
  ELSE IF mainQuestion = {}
    THEN Answer(rq, 404, "Main question not found", NoBody, 0, {"hRQuestion"})
  ELSE IF ownerOfQuestion(The(mainQuestion)) /= userId
    THEN Answer(rq, 401, "Unauthorized", NoBody, 0, {"hRQuestion", "hRInterview"})
  ELSE
    /\ nextId.followUp <= MaxFollowUps
    /\ hRFollowUpQuestion' = hRFollowUpQuestion \cup {newFollowUp}
    /\ nextId' = [nextId EXCEPT !.followUp = @ + 1]
    /\ UNCHANGED <<user, hRInterview, hRQuestion, hRUserAnswer>>
    /\ Reply(rq, 200, "", [followUps |-> {newFollowUp}], 0, {"hRQuestion", "hRInterview", "hRFollowUpQuestion"})

(* ------------------ answers: POST / PATCH hr-answers -------------------- *)
UserAnswerPOST(userId, hrQuestionId, hrFollowUpQuestionId, text) ==
  LET rq == [ handler |-> "UserAnswerPOST", userId |-> userId, hrQuestionId |-> hrQuestionId,
              hrFollowUpQuestionId |-> hrFollowUpQuestionId, userAnswer |-> text ]
      question == questionById(hrQuestionId)
      followUp == followUpById(hrFollowUpQuestionId)
      existingAnswer == userAnswer(hrQuestionId)
      updatedAnswer == [The(existingAnswer) EXCEPT !.userAnswer = text]
      newAnswer == answerDefaults @@ [ id |-> nextId.answer, hrQuestionId |-> hrQuestionId,
                                       hrFollowUpQuestionId |-> hrFollowUpQuestionId,
                                       userId |-> userId, userAnswer |-> text ]
      \* the create is rejected when it names a follow-up question that does not exist
      createOk == hrFollowUpQuestionId = NoId \/ followUp /= {}
  IN
  IF userId = NoUser THEN Unauthorized(rq)
  ELSE IF hrQuestionId /= NoId /\ question = {}
    THEN Answer(rq, 404, "Question not found", NoBody, 0, {"hRQuestion"})
  ELSE IF hrQuestionId /= NoId /\ ownerOfQuestion(The(question)) /= userId
    THEN Answer(rq, 401, "Unauthorized", NoBody, 0, {"hRQuestion", "hRInterview"})
  ELSE IF hrQuestionId /= NoId /\ existingAnswer /= {}
    THEN /\ hRUserAnswer' = (hRUserAnswer \ existingAnswer) \cup {updatedAnswer}
         /\ UNCHANGED <<user, hRInterview, hRQuestion, hRFollowUpQuestion, nextId>>
         /\ Reply(rq, 200, "", [hrUserAnswer |-> updatedAnswer], 0, {"hRQuestion", "hRInterview", "hRUserAnswer"})
  ELSE IF hrQuestionId = NoId /\ hrFollowUpQuestionId = NoId
    THEN Answer(rq, 400, "Either hrQuestionId or hrFollowUpQuestionId is required", NoBody, 0, {})
  ELSE IF hrQuestionId = NoId /\ followUp = {}
    THEN Answer(rq, 404, "Follow-up question not found", NoBody, 0, {"hRFollowUpQuestion"})
  ELSE IF hrQuestionId = NoId /\ ownerOfFollowUp(The(followUp)) /= userId
    THEN Answer(rq, 401, "Unauthorized", NoBody, 0, {"hRFollowUpQuestion", "hRQuestion", "hRInterview"})
  ELSE IF ~createOk
    THEN Answer(rq, 500, "Failed to submit answer", NoBody, 0, {"hRQuestion", "hRInterview", "hRUserAnswer"})
  ELSE
    /\ nextId.answer <= MaxAnswers
    /\ hRUserAnswer' = hRUserAnswer \cup {newAnswer}
    /\ nextId' = [nextId EXCEPT !.answer = @ + 1]
    /\ UNCHANGED <<user, hRInterview, hRQuestion, hRFollowUpQuestion>>
    /\ Reply(rq, 200, "", [hrUserAnswer |-> newAnswer], 0,
             {"hRQuestion", "hRInterview", "hRFollowUpQuestion", "hRUserAnswer"})

\* bodies of an answer PATCH: the body is passed to the update as it is
AnswerPatches == {[userAnswer |-> "a2"], [score |-> 0]}

UserAnswerPATCH(userId, answerId, body) ==
  LET rq == [handler |-> "UserAnswerPATCH", userId |-> userId, answerId |-> answerId]
      answer == answerById(answerId)
      a == The(answer)
      isOwner ==
        IF questionById(a.hrQuestionId) /= {} THEN ownerOfQuestion(The(questionById(a.hrQuestionId))) = userId
        ELSE IF followUpById(a.hrFollowUpQuestionId) /= {} THEN ownerOfFollowUp(The(followUpById(a.hrFollowUpQuestionId))) = userId
        ELSE FALSE
      updatedAnswer == body @@ a
      db == {"hRUserAnswer", "hRQuestion", "hRFollowUpQuestion", "hRInterview"}
  IN
  IF userId = NoUser THEN Unauthorized(rq)
  ELSE IF answerId = NoId
    THEN Answer(rq, 400, "Answer ID is required", NoBody, 0, {})
  ELSE IF answer = {}
    THEN Answer(rq, 404, "Answer not found", NoBody, 0, {"hRUserAnswer"})
  ELSE IF ~isOwner
    THEN Answer(rq, 401, "Unauthorized", NoBody, 0, db)
  ELSE
    /\ hRUserAnswer' = (hRUserAnswer \ answer) \cup {updatedAnswer}
    /\ UNCHANGED <<user, hRInterview, hRQuestion, hRFollowUpQuestion, nextId>>
    /\ Reply(rq, 200, "", [hrUserAnswer |-> updatedAnswer], 0, db)

(* ------------- one interview: GET / DELETE / POST / PATCH --------------- *)
\* a lookup by id that takes the interview of any user
interviewOfAnyUser(interviewId, userId) == {i \in hRInterview : i.id = interviewId}

\* where: { id: interviewId, userId } -- the interview with the id, if the
\* user owns it
ownInterview(interviewId, userId) == {i \in hRInterview : i.id = interviewId /\ i.userId = userId}

\* include: { questions } without orderBy: the rows come back in an order the
\* query does not fix -- any enumeration of them
RECURSIVE Orders(_)
Orders(S) ==
  IF S = {} THEN {<<>>}
  ELSE UNION { {<<x>> \o o : o \in Orders(S \ {x})} : x \in S }

InterviewGET(userId, interviewId, order) ==
  LET rq == [handler |-> "InterviewGET", userId |-> userId, interviewId |-> interviewId]
      \* findUnique({ where: { id: interviewId, userId } })
      hrInterview == ownInterview(interviewId, userId)
      db == {"hRInterview", "hRQuestion", "hRFollowUpQuestion", "hRUserAnswer"}
  IN
  IF userId = NoUser THEN Unauthorized(rq)
  ELSE IF interviewId /= NoId THEN
    IF hrInterview = {}
      THEN Answer(rq, 404, "HR Interview not found", NoBody, 0, {"hRInterview"})
      ELSE Answer(rq, 200, "", [interviews |-> hrInterview, questions |-> order], 0, db)
  ELSE Answer(rq, 200, "", [interviews |-> {i \in hRInterview : i.userId = userId}], 0, {"hRInterview", "hRQuestion"})

\* fetchData of the interview page: the question shown for a question index
\* (counted from 0) is interviewData.questions[Math.min(index, length - 1)]
currentQuestion(interviewQuestions, currentQuestionIndex) ==
  interviewQuestions[Min(currentQuestionIndex, Len(interviewQuestions) - 1) + 1]

\* onDelete: Cascade -- the rows that go with the interviews deleted
cascadeQuestions(interviews) == {q \in hRQuestion : \E i \in interviews : q.hrInterviewId = i.id}
cascadeFollowUps(interviews) == {f \in hRFollowUpQuestion : \E q \in cascadeQuestions(interviews) : f.mainQuestionId = q.id}
cascadeAnswers(interviews) ==
  {a \in hRUserAnswer : \/ \E q \in cascadeQuestions(interviews) : a.hrQuestionId = q.id
                        \/ \E f \in cascadeFollowUps(interviews) : a.hrFollowUpQuestionId = f.id}

InterviewDELETE(userId, interviewId) ==
  LET rq == [handler |-> "InterviewDELETE", userId |-> userId, interviewId |-> interviewId]
      \* deleteMany({ where: { id: interviewId, userId } })
      deleted == ownInterview(interviewId, userId)
  IN
  IF userId = NoUser THEN Unauthorized(rq)
  ELSE IF interviewId = NoId
    THEN Answer(rq, 400, "HR Interview ID is required", NoBody, 0, {})
  ELSE
    /\ hRInterview' = hRInterview \ deleted
    /\ hRQuestion' = hRQuestion \ cascadeQuestions(deleted)
    /\ hRFollowUpQuestion' = hRFollowUpQuestion \ cascadeFollowUps(deleted)
    /\ hRUserAnswer' = hRUserAnswer \ cascadeAnswers(deleted)
    /\ UNCHANGED <<user, nextId>>
    /\ Reply(rq, 200, "", [success |-> TRUE], 0, {"hRInterview"})

InterviewPOST(userId) ==
  LET rq == [handler |-> "InterviewPOST", userId |-> userId]
      newInterview == [id |-> nextId.interview, userId |-> userId, jobPosition |-> "posted"]
  IN
  IF userId = NoUser THEN Unauthorized(rq)
  ELSE
    /\ nextId.interview <= MaxInterviews
    /\ hRInterview' = hRInterview \cup {newInterview}
    /\ nextId' = [nextId EXCEPT !.interview = @ + 1]
    /\ UNCHANGED <<user, hRQuestion, hRFollowUpQuestion, hRUserAnswer>>
    /\ Reply(rq, 200, "", [interviews |-> {newInterview}], 0, {"hRInterview"})

\* bodies of an interview PATCH: the body is passed to the update as it is
InterviewPatches == {[jobPosition |-> "patched"]}

InterviewPATCH(userId, interviewId, body) ==
  LET rq == [handler |-> "InterviewPATCH", userId |-> userId, interviewId |-> interviewId]
      \* update({ where: { id: interviewId, userId }, data: body }) throws when no row matches
      found == ownInterview(interviewId, userId)
      updatedInterview == body @@ The(found)
  IN
  IF userId = NoUser THEN Unauthorized(rq)
  ELSE IF interviewId = NoId
    THEN Answer(rq, 400, "HR Interview ID is required", NoBody, 0, {})
  ELSE IF found = {}
    THEN Answer(rq, 500, "Failed to update interview", NoBody, 0, {"hRInterview"})
  ELSE
    /\ hRInterview' = (hRInterview \ found) \cup {updatedInterview}
    /\ UNCHANGED <<user, hRQuestion, hRFollowUpQuestion, hRUserAnswer, nextId>>
    /\ Reply(rq, 200, "", [interviews |-> {updatedInterview}], 0, {"hRInterview"})

(* --------------------- chat history: GET getChat ------------------------ *)
ChatGET(caller, interviewId) ==
  LET rq == [handler |-> "ChatGET", userId |-> caller, interviewId |-> interviewId]
      qs == questions(interviewId)
  IN
  IF interviewId = NoId
    THEN Answer(rq, 400, "Interview Id is required", NoBody, 0, {})
    ELSE Answer(rq, 200, "",
                [ questions |-> {q.id : q \in qs},
                  answers |-> {a \in hRUserAnswer : \E q \in qs : a.hrQuestionId = q.id} ],
                0, {"hRQuestion", "hRUserAnswer"})

(* ------------- interview questions: GET / POST questions ---------------- *)
\* the follow-up row the question handler creates
questionFollowUp(q) ==
  [ id |-> nextId.followUp, mainQuestionId |-> q.id,
    maxScore |-> halfScore(q.maxScore), timeLimit |-> threeQuarters(q.timeLimit) ]

QuestionsGET(userId, interviewId, questionId, generateFollowUp, followUpOutcome) ==
  LET rq == [ handler |-> "QuestionsGET", userId |-> userId, interviewId |-> interviewId,
              questionId |-> questionId, generateFollowUp |-> generateFollowUp, followUpOutcome |-> followUpOutcome ]
      hrInterview == interviewById(interviewId)
      found == {q \in questions(interviewId) : q.id = questionId}
      question == The(found)
      db == {"hRInterview", "hRQuestion", "hRFollowUpQuestion", "hRUserAnswer"}
  IN
  IF userId = NoUser THEN Unauthorized(rq)
  ELSE IF hrInterview = {}
    THEN Answer(rq, 404, "Interview not found", NoBody, 0, {"hRInterview"})
  ELSE IF questionId = NoId
    THEN Answer(rq, 200, "", [interviews |-> hrInterview, questions |-> questions(interviewId)], 0, db)
  ELSE IF found = {}
    THEN Answer(rq, 404, "Question not found", NoBody, 0, db)
  ELSE IF ~(generateFollowUp /\ Cardinality(followUpQuestions(questionId)) < MAX_FOLLOWUP_QUESTIONS)
    THEN Answer(rq, 200, "", [questions |-> found, followUps |-> followUpQuestions(questionId)], 0, db)
  ELSE IF userAnswer(questionId) = {}
    THEN Answer(rq, 400, "Cannot generate follow-up without a user answer", NoBody, 0, db)
  ELSE IF followUpOutcome = "fail"
    THEN Answer(rq, 500, "Failed to fetch questions", NoBody, 1, db)
  ELSE
    /\ nextId.followUp <= MaxFollowUps
    /\ hRFollowUpQuestion' = hRFollowUpQuestion \cup {questionFollowUp(question)}
    /\ nextId' = [nextId EXCEPT !.followUp = @ + 1]
    /\ UNCHANGED <<user, hRInterview, hRQuestion, hRUserAnswer>>
    /\ Reply(rq, 200, "",
             [questions |-> found, followUps |-> followUpQuestions(questionId) \cup {questionFollowUp(question)}],
             1, db)

QuestionsPOST(userId, interviewId, questionId, text, followUpOutcome) ==
  LET rq == [ handler |-> "QuestionsPOST", userId |-> userId, interviewId |-> interviewId,
              questionId |-> questionId, followUpOutcome |-> followUpOutcome ]
      \* findUnique({ where: { id: questionId, hrInterviewId: interviewId } })
      found == {q \in hRQuestion : q.id = questionId /\ q.hrInterviewId = interviewId}
      question == The(found)
      db == {"hRQuestion", "hRFollowUpQuestion"}
  IN
  IF userId = NoUser THEN Unauthorized(rq)
  ELSE IF questionId = NoId \/ text = ""
    THEN Answer(rq, 400, "Missing required fields", NoBody, 0, {})
  ELSE IF found = {}
    THEN Answer(rq, 404, "Question not found", NoBody, 0, {"hRQuestion"})
  ELSE IF Cardinality(followUpQuestions(questionId)) >= MAX_FOLLOWUP_QUESTIONS
    THEN Answer(rq, 400, "Maximum number of follow-up questions reached", [followUps |-> followUpQuestions(questionId)], 0, db)
  ELSE IF followUpOutcome = "fail"
    THEN Answer(rq, 500, "Failed to generate follow-up question", NoBody, 1, db)
  ELSE
    /\ nextId.followUp <= MaxFollowUps
    /\ hRFollowUpQuestion' = hRFollowUpQuestion \cup {questionFollowUp(question)}
    /\ nextId' = [nextId EXCEPT !.followUp = @ + 1]
    /\ UNCHANGED <<user, hRInterview, hRQuestion, hRUserAnswer>>
    /\ Reply(rq, 200, "", [followUps |-> {questionFollowUp(question)}], 1, db)

(* --------------------------- the system -------------------------------- *)
\* the ids a request may name: no id, the id of a row created so far (some of
\* them deleted since), and one id that was never given out
InterviewIds == 0..Min(nextId.interview, MaxInterviews)
QuestionIds == 0..Min(nextId.question, MaxQuestions)
FollowUpIds == 0..Min(nextId.followUp, MaxFollowUps)
AnswerIds == 0..Min(nextId.answer, MaxAnswers)
FollowUpOutcomes == {"fail", "text"}
AnalysisOutcomes == AnalysisTexts \cup {ModelFails}

\* the values of an input the handler reads; one value, d, when it never
\* reads it
MissingBody == [AllPresent EXCEPT !["jobPosition"] = Absent]
NoResponse == [kind |-> "unread", questions |-> <<>>]
NotRead == <<Line("unread", "unread")>>
Read(cond, S, d) == IF cond THEN S ELSE {d}

\* the request budget of a behaviour is not used up
Open == served < MaxRequests

Next ==
  \/ Open /\ \E u \in Callers :
       \E b \in Read(u \in user, CreateBodies, MissingBody) :
         \E r \in Read(u \in user /\ missingFields(b) = <<>>, QuestionResponses, NoResponse) :
           CreateInterviewPOST(u, b, r)
  \/ Open /\ \E u \in Callers :
       \E q \in Read(u /= NoUser, QuestionIds, NoId) :
         \E t \in Read(u /= NoUser /\ q /= NoId, AnswerTexts, "a1") :
           \E ok \in Read(u /= NoUser /\ t /= "" /\ questionById(q) /= {}, BOOLEAN, TRUE) :
             \E a \in Read(ok /\ u /= NoUser /\ t /= "" /\ questionById(q) /= {}, AnalysisOutcomes, NotRead) :
               \E f \in Read(ok /\ u /= NoUser /\ t /= "" /\ questionById(q) /= {} /\ followUpQuestions(q) = {}, FollowUpOutcomes, "unread") :
                 processMainQuestion(u, q, t, a, f, ok)
  \/ Open /\ \E u \in Callers :
       \E fid \in Read(u /= NoUser, FollowUpIds, NoId) :
         \E q \in Read(u /= NoUser /\ fid = NoId, QuestionIds, NoId) :
           \E t \in Read(u /= NoUser /\ (fid /= NoId \/ q /= NoId), AnswerTexts, "a1") :
             \E f \in Read(u /= NoUser /\ t /= "" /\ fid = NoId /\ questionById(q) /= {}, FollowUpOutcomes, "unread") :
               \E ok \in Read(u /= NoUser /\ t /= "" /\ (followUpById(fid) /= {} \/ (fid = NoId /\ questionById(q) /= {} /\ f /= "fail")), BOOLEAN, TRUE) :
                 \E a \in Read(ok /\ u /= NoUser /\ t /= "" /\ (followUpById(fid) /= {} \/ (fid = NoId /\ questionById(q) /= {} /\ f /= "fail")), AnalysisOutcomes, NotRead) :
                   processFollowUpQuestion(u, q, fid, t, f, a, ok)
  \/ Open /\ \E u \in Callers :
       \E fid \in Read(u /= NoUser, FollowUpIds, NoId) :
         \E q \in Read(u /= NoUser /\ fid = NoId, QuestionIds, NoId) :
           FollowUpGET(u, fid, q)
  \/ Open /\ \E u \in Callers :
       \E q \in Read(u /= NoUser, QuestionIds, NoId) :
         \E p \in PostedFollowUps :
           FollowUpPOST(u, q, p)
  \/ Open /\ \E u \in Callers :
       \E q \in Read(u /= NoUser, QuestionIds, NoId) :
         \E fid \in Read(u /= NoUser, FollowUpIds, NoId) :
           \E t \in {"a2"} :
             UserAnswerPOST(u, q, fid, t)
  \/ Open /\ \E u \in Callers :
       \E a \in Read(u /= NoUser, AnswerIds, NoId) :
         \E b \in Read(u /= NoUser /\ answerById(a) /= {}, AnswerPatches, [score |-> 0]) :
           UserAnswerPATCH(u, a, b)
  \/ Open /\ \E u \in Callers :
       \E i \in Read(u /= NoUser, InterviewIds, NoId) :
         \E o \in Read(ownInterview(i, u) /= {}, Orders(questions(i)), <<>>) :
           InterviewGET(u, i, o)
  \/ Open /\ \E u \in Callers :
       \E i \in Read(u /= NoUser, InterviewIds, NoId) :
         InterviewDELETE(u, i)
  \/ Open /\ \E u \in Callers :
       InterviewPOST(u)
  \/ Open /\ \E u \in Callers :
       \E i \in Read(u /= NoUser, InterviewIds, NoId) :
         \E b \in InterviewPatches :
           InterviewPATCH(u, i, b)
  \/ Open /\ \E u \in Callers :
       \E i \in InterviewIds :
         ChatGET(u, i)
  \/ Open /\ \E u \in Callers :
       \E i \in Read(u /= NoUser, InterviewIds, NoId) :
         \E q \in Read(u /= NoUser /\ interviewById(i) /= {}, QuestionIds, NoId) :
           \E g \in Read(u /= NoUser /\ questionById(q) /= {}, BOOLEAN, TRUE) :
             \E f \in Read(u /= NoUser /\ g /\ questionById(q) /= {} /\ userAnswer(q) /= {}, FollowUpOutcomes, "unread") :
               QuestionsGET(u, i, q, g, f)
  \/ Open /\ \E u \in Callers :
       \E i \in Read(u /= NoUser, InterviewIds, NoId) :
         \E q \in Read(u /= NoUser, QuestionIds, NoId) :
           \E t \in Read(u /= NoUser /\ q /= NoId, {"a1", ""}, "a1") :
             \E f \in Read(u /= NoUser /\ t /= "" /\ questionById(q) /= {}, FollowUpOutcomes, "unread") :
               QuestionsPOST(u, i, q, t, f)

Spec == Init /\ [][Next]_vars

(* ------- failures of the data store and of reading the request body ----- *)
\* What each handler awaits, inside its try block, from its authentication
\* up to its first write to the data store, and the error its catch clause
\* answers with. ChatGET does not authenticate. (The saves of the answer
\* handler have a catch clause of their own: saveOk.)
Awaits ==
  [ CreateInterviewPOST |-> [operations |-> <<"req.json", "user.findUnique", "hRInterview.create">>, error |-> "Internal Server Error"],
    processMainQuestion |-> [operations |-> <<"req.json", "hRQuestion.findUnique">>, error |-> "An unexpected error occurred"],
    processFollowUpQuestion |-> [operations |-> <<"req.json", "hRFollowUpQuestion.findUnique">>, error |-> "An unexpected error occurred"],
    FollowUpGET |-> [operations |-> <<"hRFollowUpQuestion.findUnique">>, error |-> "Failed to retrieve follow-up questions"],
    FollowUpPOST |-> [operations |-> <<"req.json", "hRQuestion.findUnique", "hRFollowUpQuestion.create">>, error |-> "Failed to create follow-up question"],
    UserAnswerPOST |-> [operations |-> <<"req.json", "hRQuestion.findUnique", "hRUserAnswer.create">>, error |-> "Failed to submit answer"],
    UserAnswerPATCH |-> [operations |-> <<"req.json", "hRUserAnswer.findUnique", "hRUserAnswer.update">>, error |-> "Failed to update answer"],
    InterviewGET |-> [operations |-> <<"hRInterview.findUnique">>, error |-> "Failed to retrieve interviews"],
    InterviewDELETE |-> [operations |-> <<"hRInterview.deleteMany">>, error |-> "Failed to delete interview"],
    InterviewPOST |-> [operations |-> <<"req.json", "hRInterview.create">>, error |-> "Failed to create interview"],
    InterviewPATCH |-> [operations |-> <<"req.json", "hRInterview.update">>, error |-> "Failed to update interview"],
    ChatGET |-> [operations |-> <<"hRQuestion.findMany">>, error |-> "Internal Server Error"],
    QuestionsGET |-> [operations |-> <<"hRInterview.findUnique", "hRFollowUpQuestion.create">>, error |-> "Failed to fetch questions"],
    QuestionsPOST |-> [operations |-> <<"req.json", "hRQuestion.findUnique", "hRFollowUpQuestion.create">>, error |-> "Failed to generate follow-up question"] ]

\* the operations that write
Writes ==
  { "hRInterview.create", "hRInterview.update", "hRInterview.deleteMany",
    "hRFollowUpQuestion.create", "hRUserAnswer.create", "hRUserAnswer.update" }

\* some request of the user gets as far as the write of the handler: the rows
\* the handler looks up before it exist and pass its tests
writeReached(handler, userId) ==
  CASE handler = "CreateInterviewPOST" -> userId \in user
    [] handler \in {"FollowUpPOST", "UserAnswerPOST"} ->
         \E q \in hRQuestion : ownerOfQuestion(q) = userId
    [] handler = "UserAnswerPATCH" ->
         \E a \in hRUserAnswer : \E q \in questionById(a.hrQuestionId) : ownerOfQuestion(q) = userId
    [] handler = "QuestionsGET" ->
         \E q \in hRQuestion : /\ userAnswer(q.id) /= {}
                               /\ Cardinality(followUpQuestions(q.id)) < MAX_FOLLOWUP_QUESTIONS
    [] handler = "QuestionsPOST" ->
         \E q \in hRQuestion : Cardinality(followUpQuestions(q.id)) < MAX_FOLLOWUP_QUESTIONS
    [] OTHER -> TRUE

\* a handler that goes on after the exception and answers as if nothing failed
swallowed(handler) == [status |-> 200, error |-> ""]

\* } catch (error) { return NextResponse.json({ error: ... }, { status: 500 }) }
catchClause(handler) == [status |-> 500, error |-> Awaits[handler].error]

\* The k-th awaited operation of a handler throws: control passes to the catch
\* clause. Nothing was written before it and the write that throws writes
\* nothing, so every table is as it was.
Throws(handler, userId, k) ==
  LET operation == Awaits[handler].operations[k]
      rq == [handler |-> handler, userId |-> userId, threw |-> operation]
  IN /\ handler /= "ChatGET" => userId /= NoUser
     /\ operation \in Writes => writeReached(handler, userId)
     /\ Answer(rq, catchClause(handler).status, catchClause(handler).error, NoBody, 0,
               IF operation = "req.json" THEN {} ELSE {operation})

\* what the loops of the creation handler have written when the create of
\* question k (j = 0) or of its j-th follow-up question throws; k past the
\* list is the findUnique after the loops
written(list, k, j) ==
  SubSeq(list, 1, k - 1)
    \o (IF j >= 1 THEN <<[list[k] EXCEPT !.followUpQuestions = SubSeq(@, 1, j - 1)]>> ELSE <<>>)

\* The creation handler has created the interview, and an operation after
\* that throws: control passes to the catch clause, and the rows created so
\* far stay (the creates are separate operations, in no transaction).
CreateInterviewThrows(userId, requestBody, response, k, j) ==
  LET list == extractJSON(response).questions
      operation == IF k > Len(list) THEN "hRInterview.findUnique"
                   ELSE IF j = 0 THEN "hRQuestion.create" ELSE "hRFollowUpQuestion.create"
      rq == [ handler |-> "CreateInterviewPOST", userId |-> userId, body |-> requestBody,
              response |-> response.kind, generated |-> Len(response.questions), threw |-> operation ]
      iid == nextId.interview
      rows == written(list, k, j)
      nf == followUpsBefore(rows, Len(rows) + 1)
  IN /\ userId \in user /\ missingFields(requestBody) = <<>>
     /\ response.kind = "json" /\ Len(list) > 0
     /\ k \in 1..(Len(list) + 1)
     /\ j \in 0..(IF k <= Len(list) THEN Len(list[k].followUpQuestions) ELSE 0)
     /\ iid <= MaxInterviews
     /\ nextId.question + Len(rows) - 1 <= MaxQuestions
     /\ nextId.followUp + nf - 1 <= MaxFollowUps
     /\ hRInterview' = hRInterview \cup {[id |-> iid, userId |-> userId, jobPosition |-> "posted"]}
     /\ hRQuestion' = hRQuestion \cup newQuestions(rows, iid)
     /\ hRFollowUpQuestion' = hRFollowUpQuestion \cup newFollowUps(rows)
     /\ nextId' = [nextId EXCEPT !.interview = iid + 1, !.question = @ + Len(rows), !.followUp = @ + nf]
     /\ UNCHANGED <<user, hRUserAnswer>>
     /\ Reply(rq, catchClause("CreateInterviewPOST").status, catchClause("CreateInterviewPOST").error, NoBody, 1,
              {"user", "hRInterview", "hRQuestion", "hRFollowUpQuestion"})

\* the handlers, each of whose awaited operations may throw
FailureNext ==
  \/ Next
  \/ Open /\ \E handler \in DOMAIN Awaits : \E u \in Callers :
       \E k \in 1..Len(Awaits[handler].operations) : Throws(handler, u, k)
  \/ Open /\ \E u \in user : \E l \in QuestionLists :
       \E k \in 1..(MaxQuestions + 1) : \E j \in 0..MaxFollowUps :
         CreateInterviewThrows(u, AllPresent, [kind |-> "json", questions |-> l], k, j)

FailureSpec == Init /\ [][FailureNext]_vars

(* ------------------ results page: InterviewResults ---------------------- *)
\* questions a fetched interview may carry
MaxResultQuestions == 2

\* row?.field || d for a number: d when the row is missing, has no such
\* field, or holds 0 (or null) in it
orNumber(row, field, d) == IF field \in DOMAIN row /\ row[field] /= 0 THEN row[field] ELSE d

\* row?.field || placeholder for a text
orText(row, field, placeholder) ==
  IF field \in DOMAIN row /\ row[field] \notin {"", "null"} THEN row[field] ELSE placeholder

\* what GET /api/hrRound/<interviewId> returns to the page: the interview row
\* (passScore is null unless the interview was posted with one) with its
\* questions, each with its answer row, if it has one
ResultAnswers(maxScore) ==
  {NoBody} \cup
  { [ id |-> 1, hrQuestionId |-> 1, hrFollowUpQuestionId |-> NoId, userId |-> "u1", userAnswer |-> "a1",
      score |-> sc, evaluationFeedback |-> "good", matchedKeyPoints |-> <<>>,
      voiceTone |-> "null", confidence |-> "null" ] : sc \in {n \in {0, 5, 10, 23} : n <= maxScore} }
ResultQuestions ==
  { [id |-> 1, hrInterviewId |-> 1, maxScore |-> m, timeLimit |-> 120, userAnswer |-> a] :
      m \in {0, 10, 40}, a \in UNION {ResultAnswers(n) : n \in {0, 10, 40}} }
ResultQuestionLists ==
  UNION { [1..n -> {q \in ResultQuestions : q.userAnswer \in ResultAnswers(q.maxScore)}] : n \in 0..MaxResultQuestions }
FetchedInterviews ==
  { [id |-> 1, userId |-> "u1", jobPosition |-> "posted", questions |-> l] : l \in ResultQuestionLists }
    \cup { [id |-> 1, userId |-> "u1", jobPosition |-> "posted", passScore |-> ps, questions |-> l] :
             ps \in {0, 50, 58}, l \in ResultQuestionLists }

\* results.questions.reduce((sum, question) => sum + f(question), 0)
RECURSIVE reduceSum(_, _)
reduceSum(list, field) ==
  IF list = <<>> THEN 0
  ELSE (IF field = "score" THEN orNumber(Head(list).userAnswer, "score", 0)
        ELSE orNumber(Head(list), "maxScore", 0)) + reduceSum(Tail(list), field)

getTotalScore(data) == reduceSum(data.questions, "score")
getMaxPossibleScore(data) == reduceSum(data.questions, "maxScore")

\* Math.round((totalScore / maxScore) * 100) in double arithmetic: the nearest
\* integer of the exact value, halves going up, except where the product
\* falls just below an exact half -- for 0 <= totalScore <= maxScore <= 160
\* that is 23/40 and its multiples, where it is 57.49999999999999
BelowHalf == {<<23, 40>>, <<46, 80>>, <<69, 120>>, <<92, 160>>}
roundPercent(totalScore, maxScore) ==
  LET nearest == (200 * totalScore + maxScore) \div (2 * maxScore)
  IN IF <<totalScore, maxScore>> \in BelowHalf THEN nearest - 1 ELSE nearest

calculatePercentage(data) ==
  IF getMaxPossibleScore(data) > 0 THEN roundPercent(getTotalScore(data), getMaxPossibleScore(data)) ELSE 0

\* the card of one question
questionCard(question) ==
  [ score |-> orNumber(question.userAnswer, "score", 0),
    answer |-> orText(question.userAnswer, "text", "No answer provided"),
    feedback |-> orText(question.userAnswer, "feedback", "No feedback available") ]

InterviewResults(data) ==
  [ scorePercentage |-> calculatePercentage(data),
    isPassing |-> calculatePercentage(data) >= orNumber(data, "passScore", 70),
    cards |-> [k \in 1..Len(data.questions) |-> questionCard(data.questions[k])] ]

serverSide == <<user, hRInterview, hRQuestion, hRFollowUpQuestion, hRUserAnswer, nextId,
                req, resp, aiCalls, dbTouched, before, served, calls>>

\* fetchResults: the response is ok and its body becomes the results
fetchResults(data) ==
  /\ results = NoBody /\ rendered = NoBody
  /\ results' = data
  /\ UNCHANGED <<rendered, page, serverSide>>

\* fetchResults: the response is not ok, the page shows the error
fetchResultsFailed ==
  /\ results = NoBody /\ rendered = NoBody
  /\ rendered' = [error |-> "Failed to fetch results"]
  /\ UNCHANGED <<results, page, serverSide>>

\* the page renders the results it holds
renderResults ==
  /\ results /= NoBody /\ rendered = NoBody
  /\ rendered' = InterviewResults(results)
  /\ UNCHANGED <<results, page, serverSide>>

ResultsNext ==
  \/ \E data \in FetchedInterviews : fetchResults(data)
  \/ fetchResultsFailed
  \/ renderResults

ResultsSpec == Init /\ [][ResultsNext]_vars

(* ------------------ interview page: HRInterviewPage --------------------- *)
\* fetchData calls under way that the model keeps apart
MaxFetches == 3

\* what the candidate may have in the answer box
AnswerDrafts == {"", " ", "a1", "a2"}

\* the follow-up question the server returns for a main question
followUpOf(questionId) == 10 + questionId

\* stateToSave: the part of the page state that is kept in local storage
stateToSave(p) ==
  [ currentQuestionIndex |-> p.currentQuestionIndex, isFollowUp |-> p.isFollowUp,
    followUpQuestion |-> p.followUpQuestion, interviewComplete |-> p.interviewComplete ]

\* the values fetchData closes over in the render that starts it
closure(p) ==
  [ currentQuestionIndex |-> p.currentQuestionIndex, isFollowUp |-> p.isFollowUp,
    followUpQuestion |-> p.followUpQuestion ]

\* The effects of the render that takes the page from was to now: the state
\* is saved when one of its four parts changed, and fetchData starts again
\* (setLoading(true)) when currentQuestionIndex changed.
effects(was, now) ==
  LET saved == IF stateToSave(now) /= stateToSave(was) THEN [now EXCEPT !.storage = stateToSave(now)] ELSE now
  IN IF now.currentQuestionIndex /= was.currentQuestionIndex
       THEN [saved EXCEPT !.fetches = Append(@, closure(now)), !.loading = TRUE]
       ELSE saved

\* The page is opened. The first render has the defaults; its effects read the
\* saved state (and set it, for the next render), save the defaults, and
\* start fetchData with the defaults; the next render has the saved state,
\* and its effects run as after any other render.
mount(n) ==
  /\ ~page.mounted
  /\ page.opened => n = Len(page.interviewQuestions)
  /\ LET first == [closedPage EXCEPT !.mounted = TRUE, !.opened = TRUE,
                                     !.interviewQuestions = [k \in 1..n |-> k],
                                     !.left = page.left, !.restoring = TRUE,
                                     !.storage = stateToSave(closedPage),
                                     !.fetches = <<closure(closedPage)>>,
                                     !.event = "mount"]
         parsedState == IF page.storage = NoBody THEN stateToSave(closedPage) ELSE page.storage
         second == [first EXCEPT !.currentQuestionIndex = parsedState.currentQuestionIndex,
                                 !.isFollowUp = parsedState.isFollowUp,
                                 !.followUpQuestion = parsedState.followUpQuestion,
                                 !.interviewComplete = parsedState.interviewComplete]
     IN page' = IF page.storage = NoBody THEN first ELSE effects(first, second)
  /\ UNCHANGED <<results, rendered, serverSide>>

\* One fetchData call gets its response (the calls may finish in any order).
\* It uses the values of the render that started it.
fetchData(k, ok) ==
  /\ page.mounted /\ k \in 1..Len(page.fetches)
  /\ LET c == page.fetches[k]
         rest == [i \in 1..(Len(page.fetches) - 1) |-> IF i < k THEN page.fetches[i] ELSE page.fetches[i + 1]]
         done == [page EXCEPT !.fetches = rest, !.loading = FALSE, !.event = "fetchData"]
         interviewQuestions == page.interviewQuestions
         questionIndex == Min(c.currentQuestionIndex, Len(interviewQuestions) - 1)
         fetched == [done EXCEPT !.questions = interviewQuestions,
                               !.currentQuestion = currentQuestion(interviewQuestions, c.currentQuestionIndex)]
         now == IF ~ok THEN done
                ELSE IF interviewQuestions = <<>> THEN [done EXCEPT !.questions = interviewQuestions]
                ELSE IF ~c.isFollowUp /\ c.followUpQuestion = NoId
                  THEN [fetched EXCEPT !.currentQuestionIndex = questionIndex]
                ELSE fetched
     IN /\ Len(effects(page, now).fetches) <= MaxFetches
        /\ page' = effects(page, now)
  /\ UNCHANGED <<results, rendered, serverSide>>

\* the input area is on the page
inputShown == page.mounted /\ ~page.loading /\ ~page.interviewComplete

\* onChange of the answer box (disabled while submitting)
onChange(text) ==
  /\ inputShown /\ ~page.submitting
  /\ page' = [page EXCEPT !.userAnswer = text, !.event = "onChange"]
  /\ UNCHANGED <<results, rendered, serverSide>>

\* a Submit button that is disabled only while the answer box is empty
disabledWhenEmpty(p) == trim(p.userAnswer) = ""

\* disabled={!userAnswer.trim() || submitting}
disabled(p) == trim(p.userAnswer) = "" \/ p.submitting

\* handleSubmitAnswer up to its await of fetch: the page it leaves. Without a
\* question it throws before the request; catch and finally run in the same
\* turn, so submitting is false again when the page renders. Otherwise the
\* user's message is added to the chat and the request is sent.
handleSubmitAnswer(p) ==
  LET questionForAnswer == IF p.isFollowUp THEN p.followUpQuestion ELSE p.currentQuestion
      request == [ method |-> IF p.isFollowUp THEN "PUT" ELSE "POST", questionId |-> questionForAnswer,
                   userAnswer |-> p.userAnswer, currentQuestionIndex |-> p.currentQuestionIndex ]
  IN IF trim(p.userAnswer) = "" THEN [p EXCEPT !.event = "returned"]
     ELSE IF questionForAnswer = NoId THEN [p EXCEPT !.event = "threw"]
     ELSE [p EXCEPT !.submitting = TRUE, !.inFlight = Append(@, request), !.event = "requested",
                    !.messagesAdded = 1]

\* a click on Submit: a disabled button delivers no click; the state set in
\* the handler is rendered before the next event is delivered
clickSubmit ==
  /\ inputShown
  /\ LET start == [page EXCEPT !.messagesAdded = 0, !.clickedWith = page.userAnswer,
                               !.inFlightBefore = Len(page.inFlight)]
     IN page' = IF disabled(page) THEN [start EXCEPT !.event = "disabled"] ELSE handleSubmitAnswer(start)
  /\ UNCHANGED <<results, rendered, serverSide>>

\* what a successful response carries as data.nextQuestion ||
\* data.followUpQuestion: POST returns the main question's follow-up question,
\* or none when none was stored or generated; PUT returns the follow-up
\* question that was answered
dataNextQuestion(request) ==
  IF request.method = "PUT" THEN {request.questionId} ELSE {NoId, followUpOf(request.questionId)}

\* handleSubmitAnswer from the return of fetch: the response is not ok (or
\* fetch threw), or it is ok and carries next
submissionHandled(ok, next) ==
  /\ page.inFlight /= <<>>
  /\ next \in dataNextQuestion(Head(page.inFlight))
  /\ LET request == Head(page.inFlight)
         nextIndex == request.currentQuestionIndex + 1
         settled == [page EXCEPT !.inFlight = Tail(@), !.submitting = FALSE, !.answered = request]
         succeeded == [settled EXCEPT !.userAnswer = "", !.event = "handled", !.messagesAdded = @ + 2,
                                       !.restoring = FALSE]
         now == IF ~ok THEN [settled EXCEPT !.event = "failed"]
                ELSE IF next /= NoId
                  THEN [succeeded EXCEPT !.followUpQuestion = next, !.isFollowUp = TRUE]
                ELSE IF nextIndex < Len(page.questions)
                  THEN [succeeded EXCEPT !.currentQuestionIndex = nextIndex,
                                      !.currentQuestion = page.questions[nextIndex + 1],
                                      !.isFollowUp = FALSE, !.followUpQuestion = NoId]
                ELSE [succeeded EXCEPT !.interviewComplete = TRUE]
     IN /\ Len(effects(page, now).fetches) <= MaxFetches
        /\ page' = effects(page, now)
  /\ UNCHANGED <<results, rendered, serverSide>>

\* the page is left (reloaded or closed): its state is gone, local storage
\* stays, and the responses still under way find no page
leave ==
  /\ page.mounted
  /\ page' = [closedPage EXCEPT !.opened = TRUE, !.interviewQuestions = page.interviewQuestions,
                                !.storage = page.storage, !.left = stateToSave(page), !.event = "leave"]
  /\ UNCHANGED <<results, rendered, serverSide>>

\* handleViewResults: local storage is cleared and the results page opens
handleViewResults ==
  /\ page.mounted /\ ~page.loading /\ page.interviewComplete
  /\ page' = [closedPage EXCEPT !.opened = TRUE, !.interviewQuestions = page.interviewQuestions,
                                !.event = "handleViewResults"]
  /\ UNCHANGED <<results, rendered, serverSide>>

\* startNewInterview: local storage is cleared and the position is reset
startNewInterview ==
  /\ page.mounted /\ ~page.loading /\ ~page.interviewComplete
  /\ LET cleared == [page EXCEPT !.storage = NoBody, !.restoring = FALSE]
         now == [cleared EXCEPT !.currentQuestionIndex = 0, !.isFollowUp = FALSE, !.followUpQuestion = NoId,
                                !.interviewComplete = FALSE,
                                !.currentQuestion = IF page.questions /= <<>> THEN page.questions[1] ELSE @,
                                !.event = "startNewInterview"]
     IN /\ Len(effects(cleared, now).fetches) <= MaxFetches
        /\ page' = effects(cleared, now)
  /\ UNCHANGED <<results, rendered, serverSide>>

PageNext ==
  \/ \E n \in 0..MaxQuestions : mount(n)
  \/ \E k \in 1..MaxFetches : \E ok \in BOOLEAN : fetchData(k, ok)
  \/ \E text \in AnswerDrafts : onChange(text)
  \/ clickSubmit
  \/ \E ok \in BOOLEAN : \E next \in {NoId} \cup {followUpOf(q) : q \in 1..MaxQuestions} :
       submissionHandled(ok, next)
  \/ leave
  \/ handleViewResults
  \/ startNewInterview

PageSpec == Init /\ [][PageNext]_vars

(* ---------------- handler calls that overlap in time -------------------- *)
\* Each await of a handler is a point where another call may run. A call is
\* split at the await between what it reads and what it writes: the first
\* step records what the call read, the second writes on that basis.
MaxCalls == 2

\* calls that have read and not yet written
reading == {k \in 1..Len(calls) : calls[k].stage = "read"}

\* the request budget covers one more request
Free == served + Cardinality(reading) < MaxRequests

begin(call) ==
  /\ Free /\ Len(calls) < MaxCalls
  /\ calls' = Append(calls, call @@ [stage |-> "read", status |-> 0])
  /\ UNCHANGED <<store, req, resp, aiCalls, dbTouched, before, served, results, rendered, page>>

\* call k returns its response
Done(k, rq, status, error, body, ai, db) ==
  /\ calls' = [calls EXCEPT ![k].stage = "done", ![k].status = status]
  /\ served' = served + 1
  /\ before' = tables
  /\ req' = rq
  /\ resp' = [status |-> status, error |-> error, body |-> body]
  /\ aiCalls' = ai
  /\ dbTouched' = db
  /\ UNCHANGED <<results, rendered, page>>

\* question handler POST up to its await of generateContent: the question was
\* found with fewer than MAX_FOLLOWUP_QUESTIONS follow-up questions
QuestionsPOSTfind(userId, interviewId, questionId) ==
  LET found == {q \in hRQuestion : q.id = questionId /\ q.hrInterviewId = interviewId} IN
  /\ found /= {}
  /\ Cardinality(followUpQuestions(questionId)) < MAX_FOLLOWUP_QUESTIONS
  /\ begin([ handler |-> "QuestionsPOST", userId |-> userId, interviewId |-> interviewId, questionId |-> questionId,
             question |-> The(found), followUpQuestions |-> followUpQuestions(questionId) ])

\* question handler GET with generateFollowUp=true up to its await of
\* generateContent: the question was found with an answer and with fewer
\* than MAX_FOLLOWUP_QUESTIONS follow-up questions
QuestionsGETfind(userId, interviewId, questionId) ==
  LET found == {q \in questions(interviewId) : q.id = questionId} IN
  /\ interviewById(interviewId) /= {} /\ found /= {}
  /\ Cardinality(followUpQuestions(questionId)) < MAX_FOLLOWUP_QUESTIONS
  /\ userAnswer(questionId) /= {}
  /\ begin([ handler |-> "QuestionsGET", userId |-> userId, interviewId |-> interviewId, questionId |-> questionId,
             question |-> The(found), followUpQuestions |-> followUpQuestions(questionId) ])

\* the rest of either call: generateContent returns (or throws) and the
\* follow-up question is created for the question that was read
createFollowUp(k, followUpOutcome) ==
  /\ k \in reading /\ calls[k].handler \in {"QuestionsPOST", "QuestionsGET"}
  /\ LET c == calls[k]
         rq == [ handler |-> c.handler, userId |-> c.userId, interviewId |-> c.interviewId,
                 questionId |-> c.questionId, followUpOutcome |-> followUpOutcome ]
         followUpQuestion == questionFollowUp(c.question)
         db == IF c.handler = "QuestionsPOST" THEN {"hRQuestion", "hRFollowUpQuestion"}
               ELSE {"hRInterview", "hRQuestion", "hRFollowUpQuestion", "hRUserAnswer"}
     IN IF followUpOutcome = "fail"
          THEN /\ Done(k, rq, 500, IF c.handler = "QuestionsPOST" THEN "Failed to generate follow-up question"
                                   ELSE "Failed to fetch questions", NoBody, 1, db)
               /\ UNCHANGED store
          ELSE /\ nextId.followUp <= MaxFollowUps
               /\ hRFollowUpQuestion' = hRFollowUpQuestion \cup {followUpQuestion}
               /\ nextId' = [nextId EXCEPT !.followUp = @ + 1]
               /\ UNCHANGED <<user, hRInterview, hRQuestion, hRUserAnswer>>
               /\ Done(k, rq, 200, "",
                       IF c.handler = "QuestionsPOST" THEN [followUps |-> {followUpQuestion}]
                       ELSE [questions |-> {c.question}, followUps |-> c.followUpQuestions \cup {followUpQuestion}],
                       1, db)

\* processMainQuestion up to its await of hRUserAnswer.findFirst: the
\* question was found, the answer was analysed, and the answer this user
\* already gave to the question (if any) was looked up
findExistingAnswer(userId, hrQuestionId, text, analysisOutcome) ==
  LET found == questionById(hrQuestionId) IN
  /\ found /= {}
  /\ begin([ handler |-> "processMainQuestion", userId |-> userId, hrQuestionId |-> hrQuestionId,
             userAnswer |-> text, analysisOutcome |-> analysisOutcome,
             question |-> The(found), followUpQuestions |-> followUpQuestions(hrQuestionId),
             analysis |-> parseAnalysisResponse(analyzeAnswer(analysisOutcome), Or(The(found).maxScore, DEFAULT_MAX_SCORE)),
             existingAnswer |-> {a \in hRUserAnswer : a.hrQuestionId = hrQuestionId /\ a.userId = userId} ])

\* the rest of processMainQuestion: the answer found is updated, or a new
\* one is created when none was found (the create is rejected when a row
\* holds the unique hrQuestionId by now, the update when its row is gone);
\* then the follow-up question is taken from the question as it was read, or
\* generated when it had none
saveAnswer(k, followUpOutcome) ==
  /\ k \in reading /\ calls[k].handler = "processMainQuestion"
  /\ LET c == calls[k]
         rq == [ handler |-> "processMainQuestion", userId |-> c.userId, hrQuestionId |-> c.hrQuestionId,
                 userAnswer |-> c.userAnswer, analysisOutcome |-> c.analysisOutcome,
                 followUpOutcome |-> followUpOutcome, saveOk |-> TRUE ]
         existing == c.existingAnswer
         row == {a \in hRUserAnswer : \E e \in existing : a.id = e.id}
         updated == update(The(row), c.userAnswer, c.analysis)
         created == c.analysis @@ [ id |-> nextId.answer, hrQuestionId |-> c.hrQuestionId, hrFollowUpQuestionId |-> NoId,
                                    userId |-> c.userId, userAnswer |-> c.userAnswer ]
         hrUserAnswer == IF existing /= {} THEN updated ELSE created
         saved == IF existing /= {} THEN row /= {} ELSE userAnswer(c.hrQuestionId) = {}
         fups == c.followUpQuestions
         generate == fups = {} /\ generateFollowUpQuestion(followUpOutcome)
         nextQuestions == IF fups /= {} THEN {f.id : f \in fups}
                          ELSE IF generate THEN {nextId.followUp} ELSE {NoId}
         ai == IF fups = {} THEN 2 ELSE 1
         db == {"hRQuestion", "hRInterview", "hRFollowUpQuestion", "hRUserAnswer"}
     IN IF ~saved
          THEN Done(k, rq, 500, "Failed to save answer", NoBody, 1, db) /\ UNCHANGED store
          ELSE /\ existing = {} => nextId.answer <= MaxAnswers
               /\ generate => nextId.followUp <= MaxFollowUps
               /\ hRUserAnswer' = IF existing /= {} THEN (hRUserAnswer \ row) \cup {updated}
                                  ELSE hRUserAnswer \cup {created}
               /\ hRFollowUpQuestion' = IF generate THEN hRFollowUpQuestion \cup {answerFollowUp(c.question)}
                                        ELSE hRFollowUpQuestion
               /\ nextId' = [nextId EXCEPT !.answer = IF existing = {} THEN @ + 1 ELSE @,
                                           !.followUp = IF generate THEN @ + 1 ELSE @]
               /\ UNCHANGED <<user, hRInterview, hRQuestion>>
               /\ \E nextQuestion \in nextQuestions :
                    Done(k, rq, 200, "",
                         [hrUserAnswer |-> hrUserAnswer, analysis |-> c.analysis, nextQuestion |-> nextQuestion],
                         ai, db)

\* An interview is created by a call that runs alone; then calls of the
\* question handler and of the answer handler overlap.
ConcurrentNext ==
  \/ Free /\ \E u \in user : \E l \in QuestionLists :
       CreateInterviewPOST(u, AllPresent, [kind |-> "json", questions |-> l])
  \/ \E u \in user : \E i \in InterviewIds \ {NoId} : \E q \in QuestionIds \ {NoId} :
       QuestionsPOSTfind(u, i, q)
  \/ \E u \in user : \E i \in InterviewIds \ {NoId} : \E q \in QuestionIds \ {NoId} :
       QuestionsGETfind(u, i, q)
  \/ \E k \in 1..MaxCalls : \E f \in FollowUpOutcomes : createFollowUp(k, f)
  \/ \E u \in user : \E q \in QuestionIds \ {NoId} : \E t \in AnswerTexts \ {""} :
       \E a \in {ModelFails, <<Line("Score", 12)>>} :
         findExistingAnswer(u, q, t, a)
  \/ \E k \in 1..MaxCalls : \E f \in FollowUpOutcomes : saveAnswer(k, f)

ConcurrentSpec == Init /\ [][ConcurrentNext]_vars

\* A candidate who goes through the interview: the page is opened on an
\* interview with at least one question, every request succeeds, and the
\* candidate keeps typing answers and submitting them.
typeAnswer == \E text \in AnswerDrafts \ {"", " "} : onChange(text)

submitAnswer == clickSubmit /\ page'.event = "requested"

answerHandled ==
  \E next \in {NoId} \cup {followUpOf(q) : q \in 1..MaxQuestions} : submissionHandled(TRUE, next)

InterviewNext ==
  \/ \E n \in 1..MaxQuestions : mount(n)
  \/ \E k \in 1..MaxFetches : fetchData(k, TRUE)
  \/ \E text \in AnswerDrafts : onChange(text)
  \/ clickSubmit
  \/ answerHandled

InterviewSpec ==
  /\ Init /\ [][InterviewNext]_vars
  /\ WF_vars(\E n \in 1..MaxQuestions : mount(n))
  /\ WF_vars(\E k \in 1..MaxFetches : fetchData(k, TRUE))
  /\ SF_vars(typeAnswer)
  /\ SF_vars(submitAnswer)
  /\ WF_vars(answerHandled)

(* ------------------------------ properties ------------------------------ *)
\* the page was reloaded, every fetchData of the mount has finished, and
\* nothing was submitted or restarted since
restored ==
  /\ page.mounted /\ page.restoring /\ page.left /= NoBody
  /\ page.fetches = <<>> /\ ~page.loading

\* C1: no main question ever has more than MAX_FOLLOWUP_QUESTIONS (2)
\* follow-up questions, whatever requests were served.
C1_AtMostTwoFollowUps ==
  \A q \in hRQuestion : Cardinality(followUpQuestions(q.id)) <= MAX_FOLLOWUP_QUESTIONS

\* the answer rows of a main question before the request last served
answersBefore(hrQuestionId) == {a \in before.hRUserAnswer : a.hrQuestionId = hrQuestionId}

\* C2: after a successful POST /hrRound/answer exactly one answer row exists
\* for the question and it holds the text and the analysis of this, the most
\* recent, submission; when the question had a row already that row was
\* updated in place and no row was added, otherwise one row was added.
C2_OneAnswerHoldingLatest ==
  (req.handler = "processMainQuestion" /\ resp.status = 200) =>
    LET rows == userAnswer(req.hrQuestionId)
        was == answersBefore(req.hrQuestionId)
    IN /\ Cardinality(rows) = 1
       /\ \A a \in rows :
            /\ a.userAnswer = req.userAnswer
            /\ a.userId = req.userId
            /\ \A k \in DOMAIN resp.body.analysis : a[k] = resp.body.analysis[k]
            /\ a = resp.body.hrUserAnswer
            /\ was /= {} => /\ a.id \in {b.id : b \in was}
                            /\ Cardinality(hRUserAnswer) = Cardinality(before.hRUserAnswer)
            /\ was = {} => /\ a.id \notin {b.id : b \in before.hRUserAnswer}
                           /\ Cardinality(hRUserAnswer) = Cardinality(before.hRUserAnswer) + 1

\* a second submission by the same user with another text was served
C2_SecondSubmission ==
  /\ req.handler = "processMainQuestion" /\ resp.status = 200
  /\ \E b \in answersBefore(req.hrQuestionId) :
       /\ b.userId = req.userId
       /\ b.hrFollowUpQuestionId = NoId
       /\ b.userAnswer /= req.userAnswer
       /\ b.userAnswer /= ""

\* C3: a successful PUT /hrRound/answer that names a follow-up question stores
\* the answer as the answer row of that follow-up and leaves the answer row
\* its main question already had as it was.
C3_FollowUpAnswerApart ==
  (req.handler = "processFollowUpQuestion" /\ req.followUpQuestionId /= NoId /\ resp.status = 200) =>
    LET f == The(followUpById(req.followUpQuestionId))
    IN /\ \E a \in followUpAnswers(f.id) : a.userAnswer = req.userAnswer
       /\ \A b \in answersBefore(f.mainQuestionId) : b \in hRUserAnswer

\* C4: every answer row references exactly one of a main question or a
\* follow-up question.
C4_ExactlyOneReference ==
  \A a \in hRUserAnswer : (a.hrQuestionId /= NoId) /= (a.hrFollowUpQuestionId /= NoId)

\* the required fields a creation body does not carry, in the order of
\* requiredFields
notPresent(body) == SelectSeq(requiredFields, LAMBDA field : body[field] /= Present)
lacksField(body) == \E i \in 1..Len(requiredFields) : body[requiredFields[i]] = Absent

nonOwnerGET ==
  /\ req.userId \in Users
  /\ IF req.handler \in {"InterviewGET", "QuestionsGET", "ChatGET"}
       THEN \E i \in hRInterview : i.id = req.interviewId /\ i.userId /= req.userId
     ELSE IF req.handler = "FollowUpGET"
       THEN IF req.followupId /= NoId
              THEN \E f \in followUpById(req.followupId) : ownerOfFollowUp(f) \in Users \ {req.userId}
              ELSE \E q \in questionById(req.mainQuestionId) : ownerOfQuestion(q) \in Users \ {req.userId}
     ELSE FALSE

\* C6: a GET for interview, question or follow-up data of an interview the
\* authenticated requester does not own returns 401 and none of the data.
C6_NonOwnerGetsUnauthorized ==
  nonOwnerGET => resp.status = 401 /\ resp.body = NoBody

\* C7: a request without an authenticated user is answered 401 and the
\* handler reads and writes no record and calls the model never.
C7_UnauthenticatedRejected ==
  (req.handler /= "none" /\ req.userId = NoUser) =>
    /\ resp.status = 401
    /\ dbTouched = {}
    /\ aiCalls = 0
    /\ tables = before

\* the main question an answer-submitting or follow-up-generating request
\* names (NoId when it names none)
targetQuestion ==
  IF req.handler \in {"processMainQuestion", "UserAnswerPOST"} THEN req.hrQuestionId
  ELSE IF req.handler = "processFollowUpQuestion"
    THEN IF req.followUpQuestionId = NoId THEN req.hrQuestionId ELSE NoId
  ELSE IF req.handler = "QuestionsPOST" THEN req.questionId
  ELSE IF req.handler = "FollowUpPOST" THEN req.mainQuestionId
  ELSE NoId

\* C8: an answer-submitting or follow-up-generating request of an
\* authenticated user for a question of an interview of another user returns
\* an error and changes no record.
C8_OnlyOwnerSubmits ==
  ( /\ req.userId \in Users
    /\ \E q \in {r \in before.hRQuestion : r.id = targetQuestion} :
         \E i \in before.hRInterview : i.id = q.hrInterviewId /\ i.userId /= req.userId )
  => (resp.status >= 400 /\ tables = before)

\* the scoring text the answer handler got, its lines with a label, and the
\* maximum the handler hands to the parser: the maxScore of the question, or DEFAULT_MAX_SCORE
\* when that is 0
scored == req.handler \in {"processMainQuestion", "processFollowUpQuestion"} /\ resp.status = 200
labelled(label) == {i \in 1..Len(req.analysisOutcome) : req.analysisOutcome[i].kind = label}
firstValue(label) ==
  req.analysisOutcome[CHOOSE i \in labelled(label) : \A j \in labelled(label) : i <= j].val
scoredAgainst ==
  LET rows == IF req.handler = "processMainQuestion" THEN questionById(req.hrQuestionId)
              ELSE followUpById(resp.body.followUpQuestion)
      m == (CHOOSE r \in rows : TRUE).maxScore
  IN IF m = 0 THEN DEFAULT_MAX_SCORE ELSE m

\* C9: the answer saved by a successful POST or PUT /hrRound/answer carries,
\* for each of score, feedback and key points the scoring text does not give
\* (all three when the model failed or returned nothing), the default --
\* floor(maxScore / 2), a default feedback text, no key points -- and, for
\* each one the text gives, the value given (the score capped at maxScore).
C9_DefaultsPerField ==
  scored =>
    LET row == resp.body.hrUserAnswer IN
    /\ row \in hRUserAnswer
    /\ row.score = IF labelled("Score") = {} THEN scoredAgainst \div 2
                   ELSE IF firstValue("Score") > scoredAgainst THEN scoredAgainst
                   ELSE firstValue("Score")
    /\ IF labelled("Feedback") = {}
       THEN row.evaluationFeedback \in {"Unable to generate detailed analysis.", "No specific feedback provided."}
       ELSE row.evaluationFeedback = (IF firstValue("Feedback") = " " THEN "" ELSE firstValue("Feedback"))
    /\ row.matchedKeyPoints = IF labelled("Key Points") = {} THEN <<>>
                              ELSE SelectSeq(firstValue("Key Points"), LAMBDA point : point /= " ")

\* a text that gives the score only was saved: the score replaced its default,
\* feedback and key points kept theirs
C9_ScoreOnly ==
  /\ scored
  /\ labelled("Score") /= {} /\ labelled("Feedback") = {} /\ labelled("Key Points") = {}
  /\ resp.body.hrUserAnswer.score = scoredAgainst
  /\ resp.body.hrUserAnswer.evaluationFeedback = "No specific feedback provided."
  /\ resp.body.hrUserAnswer.matchedKeyPoints = <<>>

\* a call of the generative model failed while the request last served was
\* handled: in interview creation, in the question handler, in the follow-up
\* generation of PUT /hrRound/answer, in the scoring of the answer handler,
\* in the follow-up generation of POST /hrRound/answer
creationFailed == req.handler = "CreateInterviewPOST" /\ aiCalls = 1 /\ req.response = "fail"
questionHandlerFailed ==
  req.handler \in {"QuestionsGET", "QuestionsPOST"} /\ aiCalls = 1 /\ req.followUpOutcome = "fail"
putGenerationFailed ==
  /\ req.handler = "processFollowUpQuestion" /\ req.followUpQuestionId = NoId
  /\ aiCalls >= 1 /\ req.followUpOutcome = "fail"
scoringFailed ==
  /\ req.handler \in {"processMainQuestion", "processFollowUpQuestion"}
  /\ req.analysisOutcome = ModelFails
  /\ aiCalls >= (IF req.handler = "processFollowUpQuestion" /\ req.followUpQuestionId = NoId THEN 2 ELSE 1)
postGenerationFailed ==
  req.handler = "processMainQuestion" /\ aiCalls = 2 /\ req.followUpOutcome = "fail"

\* C10 as stated: a request during which a call of the generative model
\* failed is answered with an error status, never with a success.
C10_FailureIsError ==
  (creationFailed \/ questionHandlerFailed \/ putGenerationFailed \/ scoringFailed \/ postGenerationFailed)
    => resp.status >= 400

\* C10: a failed call of the generative model is answered with an error
\* status in interview creation, in the question handler and in the follow-up
\* generation of PUT /hrRound/answer; a failed scoring call of the answer
\* handler and a failed follow-up generation of POST /hrRound/answer are not
\* reported: when the response is a success it carries the default analysis,
\* respectively no next question.
C10_FailureReportedOrDefaulted ==
  /\ (creationFailed \/ questionHandlerFailed \/ putGenerationFailed) => resp.status >= 400
  /\ (scoringFailed /\ resp.status = 200) =>
       /\ resp.body.analysis.score = scoredAgainst \div 2
       /\ resp.body.analysis.evaluationFeedback = "Unable to generate detailed analysis."
       /\ resp.body.analysis.matchedKeyPoints = <<>>
  /\ (postGenerationFailed /\ resp.status = 200) => resp.body.nextQuestion = NoId

\* the follow-up generation of a PUT failed and the PUT was answered 500
C10_GenerationFailureReported ==
  putGenerationFailed /\ resp.status = 500 /\ tables = before

\* the rows a table held before the request last served and does not hold any
\* more as they were: modified (a row with the id remains) and gone
modified(was, now) == {r \in was : r \notin now /\ \E n \in now : n.id = r.id}
gone(was, now) == {r \in was : \A n \in now : n.id /= r.id}

C12_QuestionsInCreationOrder ==
  (req.handler = "InterviewGET" /\ req.interviewId /= NoId /\ resp.status = 200) =>
    LET qs == questions(req.interviewId)
        list == resp.body.questions
    IN /\ Len(list) = Cardinality(qs)
       /\ \A k \in 0..(Len(list) - 1) :
            LET shown == currentQuestion(list, k)
            IN shown \in qs /\ Cardinality({q \in qs : q.id < shown.id}) = k

\* the page shows the results of an interview
shown == results /= NoBody /\ rendered /= NoBody
\* the stored score of a main question of the results (0 when unanswered)
storedScore(q) == IF q.userAnswer = NoBody THEN 0 ELSE q.userAnswer.score
RECURSIVE Sum(_, _)
Sum(f, n) == IF n = 0 THEN 0 ELSE f[n] + Sum(f, n - 1)

\* C13: the percentage shown is round(100 * S / M), S the sum of the stored
\* scores of the main questions and M the sum of their maxScore, and 0 when
\* M = 0; the interview is shown as passed exactly when the percentage is at
\* least the interview's passScore, 70 when it has none.
C13_PercentageAndPass ==
  shown =>
    LET n == Len(results.questions)
        S == Sum([k \in 1..n |-> storedScore(results.questions[k])], n)
        M == Sum([k \in 1..n |-> results.questions[k].maxScore], n)
        pass == IF "passScore" \in DOMAIN results THEN results.passScore ELSE 70
    IN /\ IF M = 0 THEN rendered.scorePercentage = 0
          ELSE /\ 2 * M * rendered.scorePercentage <= 200 * S + M
               /\ 200 * S + M < 2 * M * (rendered.scorePercentage + 1)
       /\ rendered.isPassing <=> (rendered.scorePercentage >= pass)

\* C14: for every main question of the results that has a stored answer
\* record, the page shows that record's stored answer text and its stored
\* evaluation feedback, not the placeholders.
C14_StoredAnswerShown ==
  shown =>
    \A k \in 1..Len(results.questions) :
      LET stored == results.questions[k].userAnswer
      IN stored /= NoBody =>
           /\ rendered.cards[k].answer = stored.userAnswer
           /\ rendered.cards[k].feedback = stored.evaluationFeedback

\* C15: every follow-up question persisted by any handler has a maxScore
\* smaller than the maxScore of its main question and a time limit smaller
\* than the time limit of its main question.
C15_FollowUpBudgetSmaller ==
  \A f \in hRFollowUpQuestion : \A q \in questionById(f.mainQuestionId) :
    f.maxScore < q.maxScore /\ f.timeLimit < q.timeLimit

\* an awaited operation of the handler last run threw
threw == "threw" \in DOMAIN req
\* the handler last run tried to save an answer and the data store refused
saveFailed == "saveOk" \in DOMAIN req /\ ~req.saveOk

\* C16: when an operation on the data store or the reading of the request body
\* fails in a handler, the handler answers with a JSON body carrying an error
\* and a status of 400 or more: the exception does not escape and no success
\* is reported.
C16_FailureAnswered ==
  (threw \/ saveFailed) =>
    /\ resp.status >= 400
    /\ resp.error /= ""
    /\ resp.body = NoBody

\* the reading of the request body failed and the handler answered 500
C16_BodyReadFailed ==
  threw /\ req.threw = "req.json" /\ resp.status = 500 /\ tables = before

\* the generative model answered the creation request last served with a text
\* that holds no JSON object, or one that does not parse, or one without a
\* (non-empty) list of questions
noQuestionsGenerated ==
  /\ req.handler = "CreateInterviewPOST" /\ aiCalls = 1
  /\ \/ req.response \in {"nojson", "badjson", "noquestions"}
     \/ req.response = "json" /\ req.generated = 0

\* C17: interview creation answers 400 and persists no interview, question
\* or follow-up question when the model's response holds no JSON object, does
\* not parse, or holds no questions or an empty list of them.
C17_NothingPersistedWithoutQuestions ==
  noQuestionsGenerated => resp.status = 400 /\ tables = before

\* a creation request got a response without a JSON object and was answered 400
C17_NoJsonRejected ==
  noQuestionsGenerated /\ req.response = "nojson" /\ resp.status = 400 /\ resp.error = "Failed to parse AI response"

\* the follow-up questions the main question named by the last request had
\* before the request, and the follow-up questions the request created
followUpsHeld == {f \in before.hRFollowUpQuestion : f.mainQuestionId = req.hrQuestionId}
followUpsCreated == {f \in hRFollowUpQuestion : \A o \in before.hRFollowUpQuestion : o.id /= f.id}

\* C18: POST /hrRound/answer creates a follow-up question only for a main
\* question that has none, and then only one; for a main question that has
\* follow-up questions it returns one of them (the first of the list fetched)
\* as nextQuestion and creates none. So submissions through this handler never
\* take a main question from one follow-up question to more.
C18_FollowUpOnlyWhenNone ==
  req.handler = "processMainQuestion" =>
    /\ followUpsCreated /= {} =>
         /\ followUpsHeld = {}
         /\ Cardinality(followUpsCreated) = 1
         /\ \A f \in followUpsCreated : f.mainQuestionId = req.hrQuestionId /\ resp.body.nextQuestion = f.id
    /\ (resp.status = 200 /\ followUpsHeld /= {}) =>
         /\ followUpsCreated = {}
         /\ resp.body.nextQuestion \in {f.id : f \in followUpsHeld}
         /\ hRFollowUpQuestion = before.hRFollowUpQuestion

\* an answer was submitted for a main question that had a follow-up question,
\* and that follow-up question came back as the next question
C18_ExistingFollowUpReturned ==
  /\ req.handler = "processMainQuestion" /\ resp.status = 200
  /\ followUpsHeld /= {} /\ followUpsCreated = {}
  /\ resp.body.nextQuestion \in {f.id : f \in followUpsHeld}

\* the question GET last served asked for a follow-up question to a main
\* question of the interview it named; that question's rows before the request
getQuestion == {q \in before.hRQuestion : q.id = req.questionId /\ q.hrInterviewId = req.interviewId}
followUpAsked ==
  req.handler = "QuestionsGET" /\ req.userId /= NoUser /\ req.generateFollowUp /\ getQuestion /= {}
unanswered == \A a \in before.hRUserAnswer : a.hrQuestionId /= req.questionId
followUpsOfQuestion == {f \in before.hRFollowUpQuestion : f.mainQuestionId = req.questionId}
atCap == Cardinality(followUpsOfQuestion) >= MAX_FOLLOWUP_QUESTIONS

\* C19 as stated: the question GET with generateFollowUp=true answers 400 and
\* persists nothing for a main question that has no stored answer; for a
\* question at the cap it persists nothing and returns the question unchanged.
C19_UnansweredIs400 ==
  followUpAsked =>
    /\ unanswered => resp.status = 400 /\ tables = before
    /\ atCap => /\ tables = before
                /\ resp.status = 200
                /\ resp.body.questions = getQuestion /\ resp.body.followUps = followUpsOfQuestion

\* C19: the question GET with generateFollowUp=true never creates a follow-up
\* question for a main question that has no stored answer: it persists
\* nothing, and answers 400 when the question is below the cap; for a question
\* at the cap, answered or not, it persists nothing and returns the question
\* unchanged with status 200.
C19_UnansweredOrAtCapPersistsNothing ==
  followUpAsked =>
    /\ unanswered => tables = before
    /\ (unanswered /\ ~atCap) =>
         resp.status = 400 /\ resp.error = "Cannot generate follow-up without a user answer"
    /\ atCap => /\ tables = before
                /\ resp.status = 200
                /\ resp.body.questions = getQuestion /\ resp.body.followUps = followUpsOfQuestion

\* a follow-up question was asked for an unanswered question of an interview
\* that has an answered question, and the request was answered 400
C19_UnansweredRejected ==
  /\ followUpAsked /\ unanswered /\ ~atCap /\ resp.status = 400
  /\ \E a \in hRUserAnswer : a.hrQuestionId /= req.questionId

\* Submit was clicked last
clicked == page.event \in {"disabled", "returned", "threw", "requested"}

\* C20: the interview page has at most one answer submission in flight: from
\* the request of handleSubmitAnswer until its response or failure is handled
\* no second request is issued; and a click with an empty or whitespace-only
\* answer issues no request.
C20_OneSubmissionInFlight ==
  /\ Len(page.inFlight) <= 1
  /\ page.inFlight /= <<>> => page.submitting
  /\ \A k \in 1..Len(page.inFlight) : trim(page.inFlight[k].userAnswer) /= ""
  /\ (clicked /\ trim(page.clickedWith) = "") => Len(page.inFlight) = page.inFlightBefore
  /\ (clicked /\ page.inFlightBefore > 0) => Len(page.inFlight) = page.inFlightBefore

\* Submit was clicked while a submission was in flight, and nothing was sent
C20_ClickWhileSubmitting ==
  page.event = "disabled" /\ page.inFlightBefore = 1 /\ Len(page.inFlight) = 1 /\ page.submitting

\* C21: after a reload, once the mount effects have run, the position
\* (currentQuestionIndex, isFollowUp, followUpQuestion, interviewComplete) is
\* the position the page was left in, and local storage still holds it.
C21_PositionRestored ==
  restored => stateToSave(page) = page.left /\ page.storage = page.left

\* the maxScore stored with the question the request last served answered
answeredMaxScore ==
  LET rows == IF req.handler = "processMainQuestion" THEN questionById(req.hrQuestionId)
              ELSE followUpById(resp.body.followUpQuestion)
  IN (CHOOSE r \in rows : TRUE).maxScore

\* C22: the answer record stored by a successful POST or PUT /hrRound/answer
\* has a score between 0 and the maxScore of the question it answers.
C22_ScoreWithinMaxScore ==
  scored =>
    /\ resp.body.hrUserAnswer \in hRUserAnswer
    /\ 0 <= resp.body.hrUserAnswer.score
    /\ resp.body.hrUserAnswer.score <= answeredMaxScore

\* the page has just handled the successful response to a follow-up answer
followUpAnswered == page.event = "handled" /\ page.answered.method = "PUT"

\* C23: once a follow-up answer was submitted successfully the page has left
\* that follow-up: it shows the next main question or the interview is
\* complete, and the follow-up answered is not the current question again.
C23_FollowUpLeft ==
  followUpAnswered =>
    /\ ~page.isFollowUp
    /\ page.followUpQuestion /= page.answered.questionId
    /\ page.interviewComplete \/ page.currentQuestionIndex = page.answered.currentQuestionIndex + 1

\* C24: a candidate who keeps submitting non-empty answers, each of them
\* handled successfully, eventually reaches the end of the interview.
C24_EventuallyComplete == <>(page.interviewComplete)

\* a step in which the page handles a submission that failed
submissionFails ==
  \E next \in {NoId} \cup {followUpOf(q) : q \in 1..MaxQuestions} : submissionHandled(FALSE, next)

\* C25: a failed submission leaves the position as it was
\* (currentQuestionIndex, currentQuestion, isFollowUp, followUpQuestion,
\* interviewComplete), keeps the typed answer, sets submitting back to false,
\* and leaves the chat with the messages it held before the attempt: the
\* attempt has added none.
C25_FailureChangesNothing ==
  [][submissionFails =>
       /\ stateToSave(page') = stateToSave(page)
       /\ page'.currentQuestion = page.currentQuestion
       /\ page'.userAnswer = page.userAnswer
       /\ ~page'.submitting
       /\ page'.messagesAdded = 0]_vars

\* two calls that generated a follow-up question for the same main question
\* have both returned 200
generatedTwice(i, j) ==
  /\ i < j
  /\ calls[i].handler \in {"QuestionsPOST", "QuestionsGET"}
  /\ calls[j].handler \in {"QuestionsPOST", "QuestionsGET"}
  /\ calls[i].questionId = calls[j].questionId
  /\ calls[i].status = 200 /\ calls[j].status = 200

\* C26: whatever the interleaving of two follow-up generation requests for
\* the same main question, the question has at most MAX_FOLLOWUP_QUESTIONS
\* follow-up questions afterwards.
C26_CapUnderInterleaving ==
  \A i, j \in 1..Len(calls) :
    generatedTwice(i, j) =>
      Cardinality(followUpQuestions(calls[i].questionId)) <= MAX_FOLLOWUP_QUESTIONS

\* two answers of one user to one main question have both been handled
answeredTwice(i, j) ==
  /\ i < j
  /\ calls[i].handler = "processMainQuestion" /\ calls[j].handler = "processMainQuestion"
  /\ calls[i].hrQuestionId = calls[j].hrQuestionId /\ calls[i].userId = calls[j].userId
  /\ calls[i].stage = "done" /\ calls[j].stage = "done"

\* C27: whatever the interleaving of two POST /hrRound/answer of one user
\* for one main question, both return 200 and the question has exactly one
\* answer record afterwards.
C27_BothSucceedOneRecord ==
  \A i, j \in 1..Len(calls) :
    answeredTwice(i, j) =>
      /\ calls[i].status = 200 /\ calls[j].status = 200
      /\ Cardinality(userAnswer(calls[i].hrQuestionId)) = 1

\* the creation request last served ended with an error
creationEndedInError == req.handler = "CreateInterviewPOST" /\ req.userId /= NoUser /\ resp.status >= 400

\* C28: when a creation request ends with an error, no interview and no
\* question of that request is stored: the tables hold the rows they held
\* before the request.
C28_AllOrNothing ==
  creationEndedInError =>
    /\ hRInterview = before.hRInterview
    /\ hRQuestion = before.hRQuestion
    /\ hRFollowUpQuestion = before.hRFollowUpQuestion

\* the creation request last served was rejected for missing fields
rejectedAsMissing ==
  req.handler = "CreateInterviewPOST" /\ resp.status = 400 /\ resp.error = "Missing required fields"

\* C29: interview creation answers 'Missing required fields' only when one
\* of the five required fields is absent from the body; a body that holds
\* all five (jobExperience 0 included) is not answered with that error.
C29_MissingOnlyWhenAbsent ==
  rejectedAsMissing => \E i \in 1..Len(requiredFields) : req.body[requiredFields[i]] = Absent

\* the request last served was a DELETE of an interview by a signed-in user
deleteServed == req.handler = "InterviewDELETE" /\ req.userId /= NoUser

\* C30: a DELETE removes the interview it names only when the requester owns
\* it, and removes no other interview; the other rows it removes are the
\* questions, follow-up questions and answers of that interview; a DELETE
\* that removes no interview removes nothing.
C30_DeleteOwnOnly ==
  deleteServed =>
    /\ hRInterview \subseteq before.hRInterview
    /\ \A i \in before.hRInterview \ hRInterview : i.id = req.interviewId /\ i.userId = req.userId
    /\ \A q \in before.hRQuestion \ hRQuestion : q.hrInterviewId = req.interviewId
    /\ hRInterview = before.hRInterview => tables = before

\* an owner deleted one interview while an interview of another user stayed
C30_OwnDeletedOtherKept ==
  /\ deleteServed /\ resp.status = 200
  /\ \E i \in before.hRInterview \ hRInterview : i.id = req.interviewId /\ i.userId = req.userId
  /\ \E i \in hRInterview : i.userId /= req.userId

====
